---------------------------- MODULE Spec2Model ----------------------------
(***************************************************************************)
(* Model of the note-content formatting pipeline of mcp-apple-notes        *)
(* (services/appleNotesManager.ts).  A string is a sequence of characters, *)
(* each character a one-character TLA+ string; positions handed to         *)
(* indexOf/substring are JavaScript's 0-based positions, so character k of *)
(* the source is s[k + 1] here.                                            *)
(***************************************************************************)
EXTENDS Integers, Sequences, FiniteSets, TLC

VARIABLES
  content,      \* the content string handed to formatNoteContent
  formatted,    \* formatNoteContent(content)
  detected,     \* what hasNestedLists answered inside that call (FALSE when not asked)
  reformatted,  \* formatNoteContent(formatted): the pipeline run a second time
  pc,           \* "input" | "formatted" | "reformatted"
  scanContent,  \* listContent of the <ol> match scanned by convertNestedListsToDivs
  currentPos,   \* outer loop position
  liStart,      \* start of the item being matched
  depth,        \* depth counter of the inner loop
  searchPos,    \* inner loop position
  liEnd,        \* end of the matched item, or -1
  mainItemCounter, \* 1-based counter of top-level items
  converted,    \* the blocks emitted so far
  scanPc,       \* "idle" | "call" | "outer" | "inner" | "after" | "done"
  str,          \* the string handed to the three escapers
  escapedLiteral,  \* escapeAppleScriptString(str)
  htmlSafe,     \* sanitizeForHTML(str)
  scriptHtmlSafe,  \* sanitizeForAppleScriptHTML(str)
  escPc,        \* "idle" | "input" | the name of the escaper that was applied
  script,       \* the script handed to runAppleScript
  lines,        \* its trimmed, non-empty lines
  command,      \* the shell command handed to execSync
  execCalls,    \* how many times execSync was invoked
  execOutcome,  \* what execSync did: returned an output or threw an error
  result,       \* the AppleScriptResult that runAppleScript returned
  runPc,        \* "idle" | "called" | "built" | "returned"
  accountName,  \* this.accountName of the manager: None (null) or Some(name)
  probes,       \* how many times detectAvailableAccount ran its test script
  call,         \* the manager operation called last, with its arguments
  returned,     \* what that operation returned
  matched,      \* the note names the Notes application reported to searchNotes
  mgrPc,        \* "idle" | "new" | "ready"
  tool,         \* the name of the tool invoked last, or "none"
  response,     \* what that tool's handler returned
  pieces,       \* the texts and ordered lists the html was put together from
  flatInput,    \* the html handed to convertNestedListsToDivs
  flattened,    \* convertNestedListsToDivs(flatInput)
  flatPc        \* "idle" | "input" | "done"

vars == << content, formatted, detected, reformatted, pc, scanContent, currentPos,
           liStart, depth, searchPos, liEnd, mainItemCounter, converted, scanPc,
           str, escapedLiteral, htmlSafe, scriptHtmlSafe, escPc,
           script, lines, command, execCalls, execOutcome, result, runPc,
           accountName, probes, call, returned, matched, mgrPc,
           tool, response, pieces, flatInput, flattened, flatPc >>

flatVars == << pieces, flatInput, flattened, flatPc >>

fmtVars == << content, formatted, detected, reformatted, pc, flatVars >>

scanVars == << scanContent, currentPos, liStart, depth, searchPos, liEnd,
               mainItemCounter, converted, scanPc >>

escVars == << str, escapedLiteral, htmlSafe, scriptHtmlSafe, escPc >>

\* What the formatter and its scan never touch.
runVars == << script, lines, command, execCalls, execOutcome, result, runPc >>

mgrVars == << accountName, probes, call, returned, matched, mgrPc,
           tool, response >>

utilVars == << escVars, runVars, mgrVars >>

----------------------------------------------------------------------------
(* Characters and string helpers *)

BS == "\\"
DQ == "\""
NL == "\n"
LT == "<"
GT == ">"

IsSpace(c) == c \in {" ", "\n", "\t", "\r"}

\* Case folding of the letters the /i patterns can meet in the model's inputs.
Lower(c) ==
  CASE c = "L" -> "l"
    [] c = "I" -> "i"
    [] c = "O" -> "o"
    [] c = "U" -> "u"
    [] OTHER -> c

\* s.substring(from, to) with 0-based from (inclusive) and to (exclusive).
Substring(s, from, to) == SubSeq(s, from + 1, to)

\* s.substring(from).
Tail0(s, from) == SubSeq(s, from + 1, Len(s))

\* Whether the literal p occurs in s at 0-based position i (case-sensitive).
At(s, i, p) ==
  /\ i >= 0
  /\ i + Len(p) <= Len(s)
  /\ \A k \in 1..Len(p) : s[i + k] = p[k]

\* The same, ignoring case (the /i flag).
AtCI(s, i, p) ==
  /\ i >= 0
  /\ i + Len(p) <= Len(s)
  /\ \A k \in 1..Len(p) : Lower(s[i + k]) = p[k]

Min(S) == CHOOSE x \in S : \A y \in S : x <= y

\* The first of the positions hits, or -1: where a left-to-right scan (indexOf, a
\* regular expression's next match) stops.
First(hits) == IF hits = {} THEN -1 ELSE Min(hits)

\* The positions from, from + 1, ... of s, none of them negative.
From(s, from) == (IF from < 0 THEN 0 ELSE from)..(Len(s) - 1)

\* s.indexOf(p, from): first 0-based position >= from where p occurs, or -1.
IndexOf(s, p, from) == First({ i \in From(s, from) : At(s, i, p) })

\* First position >= from where p occurs ignoring case, or -1.
IndexOfCI(s, p, from) == First({ i \in From(s, from) : AtCI(s, i, p) })

\* First position >= from holding the character c, or -1.
IndexOfChar(s, c, from) == First({ i \in From(s, from) : s[i + 1] = c })

\* str.replace(/c/g, rep) for a single character c.
RECURSIVE ReplaceCharFrom(_, _, _, _)
ReplaceCharFrom(s, c, rep, from) ==
  LET k == IndexOfChar(s, c, from)
  IN IF k = -1 THEN Tail0(s, from)
     ELSE Substring(s, from, k) \o rep \o ReplaceCharFrom(s, c, rep, k + 1)

ReplaceChar(s, c, rep) == ReplaceCharFrom(s, c, rep, 0)

\* String.prototype.trim().
Trim(s) ==
  LET keep == { i \in 1..Len(s) : ~IsSpace(s[i]) }
  IN IF keep = {} THEN << >>
     ELSE SubSeq(s, Min(keep), CHOOSE x \in keep : \A y \in keep : y <= x)

\* End (exclusive, 0-based) of the maximal whitespace run starting at from: \s* greedy.
SpaceEnd(s, from) ==
  LET e == First({ i \in From(s, from) : ~IsSpace(s[i + 1]) })
  IN IF e # -1 THEN e ELSE IF from > Len(s) THEN from ELSE Len(s)

\* Whether s[from, to) holds a newline.
HasNewline(s, from, to) == \E i \in from..(to - 1) : s[i + 1] = NL

\* Decimal digits of a non-negative integer (template-literal interpolation of a number).
Digit(n) == << "0", "1", "2", "3", "4", "5", "6", "7", "8", "9" >>[n + 1]

RECURSIVE NumStr(_)
NumStr(n) == IF n < 10 THEN << Digit(n) >> ELSE NumStr(n \div 10) \o << Digit(n % 10) >>

----------------------------------------------------------------------------
(* String literals of the source, as character sequences *)

LI_OPEN == << "<", "l", "i" >>                    \* '<li'
LI_CLOSE == << "<", "/", "l", "i", ">" >>         \* '</li>'
OL_OPEN == << "<", "o", "l" >>                    \* '<ol'
UL_OPEN == << "<", "u", "l" >>                    \* '<ul'
OL_CLOSE == << "<", "/", "o", "l", ">" >>         \* '</ol>'
UL_CLOSE == << "<", "/", "u", "l", ">" >>         \* '</ul>'
BR == << "<", "b", "r", ">" >>                    \* '<br>'
DIV_OPEN == << "<", "d", "i", "v", ">" >>         \* '<div>'
DIV_CLOSE == << "<", "/", "d", "i", "v", ">" >>   \* '</div>'
B_OPEN == << "<", "b", ">" >>                     \* '<b>'
B_CLOSE == << "<", "/", "b", ">" >>               \* '</b>'
FONT_CLOSE == << "<", "/", "f", "o", "n", "t", ">" >>  \* '</font>'
\* '<font color=\\"#0066CC\\">' of the template literal: backslash, quote, ..., backslash, quote
FONT_OPEN == << "<", "f", "o", "n", "t", " ", "c", "o", "l", "o", "r", "=",
                "\\", "\"", "#", "0", "0", "6", "6", "C", "C", "\\", "\"", ">" >>
NBSP == << "&", "n", "b", "s", "p", ";" >>        \* '&nbsp;'
\* The bullet glyph U+2022, one character of the source.
BULLET == "U+2022"
HTML_OPEN == << "<", "h", "t", "m", "l", ">", "<", "b", "o", "d", "y", ">" >>  \* '<html><body>'
HTML_CLOSE == << "<", "/", "b", "o", "d", "y", ">", "<", "/", "h", "t", "m", "l", ">" >>  \* '</body></html>'
AMP_ENT == << "&", "a", "m", "p", ";" >>          \* '&amp;'
LT_ENT == << "&", "l", "t", ";" >>                \* '&lt;'
GT_ENT == << "&", "g", "t", ";" >>                \* '&gt;'
LDQUO_ENT == << "&", "#", "8", "2", "2", "0", ";" >>  \* '&#8220;'
APOS_ENT == << "&", "#", "3", "9", ";" >>         \* '&#39;'

----------------------------------------------------------------------------
(* StringEscaper *)

\* .replace(/\\/g, '\\\\'): every backslash becomes two.
EscapeBackslashes(s) == ReplaceChar(s, BS, << BS, BS >>)

\* .replace(/"/g, '\\"'): every double quote gets a backslash before it.
EscapeQuotes(s) == ReplaceChar(s, DQ, << BS, DQ >>)

\* The replacements with the ampersand handled last: the '&' of the entities
\* written before it is encoded again.
sanitizeForAppleScriptHTMLAmpLast(text) ==
  IF text = << >> THEN << >>
  ELSE ReplaceChar(
         ReplaceChar(
           ReplaceChar(
             ReplaceChar(
               ReplaceChar(EscapeBackslashes(text), LT, LT_ENT),
               GT, GT_ENT),
             DQ, LDQUO_ENT),
           "'", APOS_ENT),
         "&", AMP_ENT)

\* sanitizeForAppleScriptHTML: backslash, &, <, >, ", ' in this order.
sanitizeForAppleScriptHTML(text) ==
  IF text = << >> THEN << >>
  ELSE ReplaceChar(
         ReplaceChar(
           ReplaceChar(
             ReplaceChar(
               ReplaceChar(EscapeBackslashes(text), "&", AMP_ENT),
               LT, LT_ENT),
             GT, GT_ENT),
           DQ, LDQUO_ENT),
         "'", APOS_ENT)

CR == "\r"
QUOT_ENT == << "&", "q", "u", "o", "t", ";" >>

\* .replace(/\r/g, '')
RemoveCarriageReturns(s) == ReplaceChar(s, CR, << >>)

\* The two escapes in the wrong order: quotes first, then backslashes.
escapeAppleScriptStringQuotesFirst(s) ==
  IF s = << >> THEN << >>
  ELSE RemoveCarriageReturns(EscapeBackslashes(EscapeQuotes(s)))

\* escapeAppleScriptString: backslashes, then double quotes, then carriage
\* returns are dropped.
escapeAppleScriptString(s) ==
  IF s = << >> THEN << >>
  ELSE RemoveCarriageReturns(EscapeQuotes(EscapeBackslashes(s)))

\* The replacements with the ampersand handled last.
sanitizeForHTMLAmpLast(text) ==
  IF text = << >> THEN << >>
  ELSE ReplaceChar(
         ReplaceChar(
           ReplaceChar(
             ReplaceChar(
               ReplaceChar(text, LT, LT_ENT),
               GT, GT_ENT),
             DQ, QUOT_ENT),
           "'", APOS_ENT),
         "&", AMP_ENT)

\* sanitizeForHTML: &, <, >, ", ' in this order.
sanitizeForHTML(text) ==
  IF text = << >> THEN << >>
  ELSE ReplaceChar(
         ReplaceChar(
           ReplaceChar(
             ReplaceChar(
               ReplaceChar(text, "&", AMP_ENT),
               LT, LT_ENT),
             GT, GT_ENT),
           DQ, QUOT_ENT),
         "'", APOS_ENT)

----------------------------------------------------------------------------
(* Patterns shared by the list steps *)

\* '<(?:ol|ul)' at i, ignoring case.
ListOpenAt(s, i) == AtCI(s, i, OL_OPEN) \/ AtCI(s, i, UL_OPEN)

\* '<\/(?:ol|ul)>' at i, ignoring case.
ListCloseAt(s, i) == AtCI(s, i, OL_CLOSE) \/ AtCI(s, i, UL_CLOSE)

\* '<(?:ul|ol)[\s>]' at i, ignoring case.
ListOpenTagAt(s, i) ==
  /\ ListOpenAt(s, i)
  /\ i + 3 < Len(s)
  /\ (IsSpace(s[i + 4]) \/ s[i + 4] = GT)

\* End (exclusive) of '[^>]*>' started at from: just after the first '>', or -1.
TagEnd(s, from) ==
  LET g == IndexOfChar(s, GT, from) IN IF g = -1 THEN -1 ELSE g + 1

\* /<[^>]+>/.test(s)
hasHTMLTags(s) ==
  \E i \in 0..(Len(s) - 1) :
    /\ s[i + 1] = LT
    /\ \E j \in (i + 2)..(Len(s) - 1) :
         /\ s[j + 1] = GT
         /\ \A k \in (i + 1)..(j - 1) : s[k + 1] # GT

\* The pattern without its '<li[^>]*>.*?' part: any opening tag of a list.
hasAnyListTag(html) ==
  \E k \in 0..(Len(html) - 1) : ListOpenTagAt(html, k)

\* /<li[^>]*>.*?<(?:ul|ol)[\s>]/is.test(html)
hasNestedLists(html) ==
  \E i \in 0..(Len(html) - 1) :
    /\ AtCI(html, i, LI_OPEN)
    /\ TagEnd(html, i + 3) # -1
    /\ \E k \in TagEnd(html, i + 3)..(Len(html) - 1) : ListOpenTagAt(html, k)

----------------------------------------------------------------------------
(* ContentFormatter: whitespace inside list boundaries *)

\* Whether /(<(?:ol|ul)[^>]*>)\s*\n\s*/i matches at i.
AfterListOpenAt(s, i) ==
  /\ ListOpenAt(s, i)
  /\ TagEnd(s, i + 3) # -1
  /\ HasNewline(s, TagEnd(s, i + 3), SpaceEnd(s, TagEnd(s, i + 3)))

\* .replace(/(<(?:ol|ul)[^>]*>)\s*\n\s*/gi, '$1')
RECURSIVE StripAfterListOpen(_, _)
StripAfterListOpen(s, from) ==
  LET m == First({ i \in From(s, from) : AfterListOpenAt(s, i) })
      e == TagEnd(s, m + 3)
  IN IF m = -1 THEN Tail0(s, from)
     ELSE Substring(s, from, e) \o StripAfterListOpen(s, SpaceEnd(s, e))

\* Whether /\s*\n\s*(<\/(?:ol|ul)>)/i matches at i.
BeforeListCloseAt(s, i) ==
  /\ IsSpace(s[i + 1])
  /\ HasNewline(s, i, SpaceEnd(s, i))
  /\ ListCloseAt(s, SpaceEnd(s, i))

\* .replace(/\s*\n\s*(<\/(?:ol|ul)>)/gi, '$1')
RECURSIVE StripBeforeListClose(_, _)
StripBeforeListClose(s, from) ==
  LET m == First({ i \in From(s, from) : BeforeListCloseAt(s, i) })
      w == SpaceEnd(s, m)
  IN IF m = -1 THEN Tail0(s, from)
     ELSE Substring(s, from, m) \o Substring(s, w, w + 5)
            \o StripBeforeListClose(s, w + 5)

\* Whether /(<\/li>)\s*\n\s*(<li)/i matches at i.
BetweenItemsAt(s, i) ==
  /\ AtCI(s, i, LI_CLOSE)
  /\ HasNewline(s, i + 5, SpaceEnd(s, i + 5))
  /\ AtCI(s, SpaceEnd(s, i + 5), LI_OPEN)

\* .replace(/(<\/li>)\s*\n\s*(<li)/gi, '$1$2')
RECURSIVE StripBetweenItems(_, _)
StripBetweenItems(s, from) ==
  LET m == First({ i \in From(s, from) : BetweenItemsAt(s, i) })
      w == SpaceEnd(s, m + 5)
  IN IF m = -1 THEN Tail0(s, from)
     ELSE Substring(s, from, m + 5) \o Substring(s, w, w + 3)
            \o StripBetweenItems(s, w + 3)

\* Whether /(<(?:ol|ul)[^>]*>)\s*\n\s*(<li)/i matches at i.
ListOpenToItemAt(s, i) ==
  /\ AfterListOpenAt(s, i)
  /\ AtCI(s, SpaceEnd(s, TagEnd(s, i + 3)), LI_OPEN)

\* .replace(/(<(?:ol|ul)[^>]*>)\s*\n\s*(<li)/gi, '$1$2')
RECURSIVE StripListOpenToItem(_, _)
StripListOpenToItem(s, from) ==
  LET m == First({ i \in From(s, from) : ListOpenToItemAt(s, i) })
      e == TagEnd(s, m + 3)
      w == SpaceEnd(s, e)
  IN IF m = -1 THEN Tail0(s, from)
     ELSE Substring(s, from, e) \o Substring(s, w, w + 3)
            \o StripListOpenToItem(s, w + 3)

\* Whether /(<\/li>)\s*\n\s*(<\/(?:ol|ul)>)/i matches at i.
ItemToListCloseAt(s, i) ==
  /\ AtCI(s, i, LI_CLOSE)
  /\ HasNewline(s, i + 5, SpaceEnd(s, i + 5))
  /\ ListCloseAt(s, SpaceEnd(s, i + 5))

\* .replace(/(<\/li>)\s*\n\s*(<\/(?:ol|ul)>)/gi, '$1$2')
RECURSIVE StripItemToListClose(_, _)
StripItemToListClose(s, from) ==
  LET m == First({ i \in From(s, from) : ItemToListCloseAt(s, i) })
      w == SpaceEnd(s, m + 5)
  IN IF m = -1 THEN Tail0(s, from)
     ELSE Substring(s, from, m + 5) \o Substring(s, w, w + 5)
            \o StripItemToListClose(s, w + 5)

\* The five replacements of the markup branch, in the source's order.
CleanListWhitespace(s) ==
  StripItemToListClose(
    StripListOpenToItem(
      StripBetweenItems(
        StripBeforeListClose(
          StripAfterListOpen(s, 0), 0), 0), 0), 0)


----------------------------------------------------------------------------
(* ListFlattener: convertNestedListsToDivs *)

\* The loop body without the depth count: the first '</li>' ends the item.
InnerStepFirstClose(c, d, pos) ==
  LET nextCloseLi == IndexOf(c, LI_CLOSE, pos)
  IN IF nextCloseLi = -1
       THEN [depth |-> d, searchPos |-> pos, liEnd |-> -1, break |-> TRUE]
     ELSE [depth |-> 0, searchPos |-> pos, liEnd |-> nextCloseLi + 5, break |-> FALSE]

\* The loop body with the position left on the '<li' it has just counted.
InnerStepNoAdvance(c, d, pos) ==
  LET nextLi == IndexOf(c, LI_OPEN, pos)
      nextCloseLi == IndexOf(c, LI_CLOSE, pos)
  IN IF nextCloseLi = -1
       THEN [depth |-> d, searchPos |-> pos, liEnd |-> -1, break |-> TRUE]
     ELSE IF nextLi # -1 /\ nextLi < nextCloseLi
       THEN [depth |-> d, searchPos |-> nextLi, liEnd |-> -1, break |-> FALSE]
     ELSE IF d - 1 = 0
       THEN [depth |-> 0, searchPos |-> pos, liEnd |-> nextCloseLi + 5, break |-> FALSE]
     ELSE [depth |-> d - 1, searchPos |-> nextCloseLi + 5, liEnd |-> -1, break |-> FALSE]

\* One pass through the body of the inner while loop, entered with depth d and
\* searchPos pos: the new depth, searchPos and liEnd, and whether it left by break.
InnerStep(c, d, pos) ==
  LET nextLi == IndexOf(c, LI_OPEN, pos)
      nextCloseLi == IndexOf(c, LI_CLOSE, pos)
  IN IF nextCloseLi = -1
       THEN [depth |-> d, searchPos |-> pos, liEnd |-> -1, break |-> TRUE]
     ELSE IF nextLi # -1 /\ nextLi < nextCloseLi
       THEN [depth |-> d + 1, searchPos |-> nextLi + 3, liEnd |-> -1, break |-> FALSE]
     ELSE IF d - 1 = 0
       THEN [depth |-> 0, searchPos |-> pos, liEnd |-> nextCloseLi + 5, break |-> FALSE]
     ELSE [depth |-> d - 1, searchPos |-> nextCloseLi + 5, liEnd |-> -1, break |-> FALSE]

\* The inner while loop: the end (exclusive) of the item opened before pos, found
\* by counting '<li' up and '</li>' down, or -1 when the scan gives up.
RECURSIVE MatchItemEnd(_, _, _)
MatchItemEnd(c, d, pos) ==
  IF ~(d > 0 /\ pos < Len(c)) THEN -1
  ELSE LET r == InnerStep(c, d, pos)
       IN IF r.break THEN -1
          ELSE IF r.liEnd # -1 THEN r.liEnd
          ELSE MatchItemEnd(c, r.depth, r.searchPos)

\* fullItem.replace(/^<li[^>]*>|<\/li>$/gi, '')
StripItemTags(fullItem) ==
  LET e == IF AtCI(fullItem, 0, LI_OPEN) THEN TagEnd(fullItem, 3) ELSE -1
      start == IF e = -1 THEN 0 ELSE e
      n == Len(fullItem)
      stop == IF n - 5 >= start /\ AtCI(fullItem, n - 5, LI_CLOSE) THEN n - 5 ELSE n
  IN Substring(fullItem, start, stop)

\* /<(?:ul|ol)[\s>]/i.test(itemContent)
HasListOpenTag(s) == \E k \in 0..(Len(s) - 1) : ListOpenTagAt(s, k)

\* First position >= from where '<(?:ul|ol)' occurs ignoring case, or -1.
IndexOfListOpen(s, from) == First({ i \in From(s, from) : ListOpenAt(s, i) })

\* First position >= from where '<\/(?:ul|ol)>' occurs ignoring case, or -1.
IndexOfListClose(s, from) == First({ i \in From(s, from) : ListCloseAt(s, i) })

\* itemContent.replace(/<(?:ul|ol)[\s\S]*$/i, '')
TruncateAtList(s) ==
  LET k == IndexOfListOpen(s, 0) IN IF k = -1 THEN s ELSE Substring(s, 0, k)

\* .replace(/<[^>]*>/g, '')
RECURSIVE StripTags(_, _)
StripTags(s, from) ==
  LET m == First({ i \in From(s, from) : s[i + 1] = LT /\ TagEnd(s, i + 1) # -1 })
  IN IF m = -1 THEN Tail0(s, from)
     ELSE Substring(s, from, m) \o StripTags(s, TagEnd(s, m + 1))

\* Whether /<(?:ul|ol)[^>]*>([\s\S]*?)<\/(?:ul|ol)>/i matches at i.
NestedListAt(s, i) ==
  /\ ListOpenAt(s, i)
  /\ TagEnd(s, i + 3) # -1
  /\ IndexOfListClose(s, TagEnd(s, i + 3)) # -1

\* itemContent.match(/<(?:ul|ol)[^>]*>([\s\S]*?)<\/(?:ul|ol)>/i): the captured
\* group of the leftmost match, as << TRUE, group >>, or << FALSE, "" >> for null.
NestedListMatch(s) ==
  LET m == First({ i \in From(s, 0) : NestedListAt(s, i) })
      e == TagEnd(s, m + 3)
  IN IF m = -1 THEN << FALSE, << >> >>
     ELSE << TRUE, Substring(s, e, IndexOfListClose(s, e)) >>

\* Whether /<li[^>]*>([\s\S]*?)<\/li>/i matches at i.
NestedLiAt(s, i) ==
  /\ AtCI(s, i, LI_OPEN)
  /\ TagEnd(s, i + 3) # -1
  /\ IndexOfCI(s, LI_CLOSE, TagEnd(s, i + 3)) # -1

\* nestedContent.match(/<li[^>]*>([\s\S]*?)<\/li>/gi) || []
RECURSIVE NestedLis(_, _)
NestedLis(s, from) ==
  LET m == First({ i \in From(s, from) : NestedLiAt(s, i) })
      c == IndexOfCI(s, LI_CLOSE, TagEnd(s, m + 3))
  IN IF m = -1 THEN << >>
     ELSE << Substring(s, m, c + 5) >> \o NestedLis(s, c + 5)

\* End (exclusive) of a match of /<\/?li[^>]*>/i at i, or -1.
LiTagEnd(s, i) ==
  IF AtCI(s, i, LI_OPEN) THEN TagEnd(s, i + 3)
  ELSE IF AtCI(s, i, << "<", "/", "l", "i" >>) THEN TagEnd(s, i + 4)
  ELSE -1

\* li.replace(/<\/?li[^>]*>/gi, '')
RECURSIVE StripLiTags(_, _)
StripLiTags(s, from) ==
  LET m == First({ i \in From(s, from) : LiTagEnd(s, i) # -1 })
  IN IF m = -1 THEN Tail0(s, from)
     ELSE Substring(s, from, m) \o StripLiTags(s, LiTagEnd(s, m))

\* The forEach over nestedLis: the plain text of each nested item, empty ones dropped.
RECURSIVE NestedItemTexts(_)
NestedItemTexts(lis) ==
  IF lis = << >> THEN << >>
  ELSE LET rawContent == Trim(StripLiTags(Head(lis), 0))
           text == Trim(StripTags(rawContent, 0))
       IN (IF text # << >> THEN << text >> ELSE << >>) \o NestedItemTexts(Tail(lis))

\* '<div>&nbsp;&nbsp;&nbsp;&nbsp;(bullet) ${sanitizeForAppleScriptHTML(subitem)}</div>' for each subitem
RECURSIVE BulletBlocks(_)
BulletBlocks(items) ==
  IF items = << >> THEN << >>
  ELSE DIV_OPEN \o NBSP \o NBSP \o NBSP \o NBSP \o << BULLET, " " >>
         \o sanitizeForAppleScriptHTML(Head(items)) \o DIV_CLOSE
         \o BulletBlocks(Tail(items))

\* No spacer after the bullet blocks.
NoSpacerBlock == << >>

\* '<div><br></div>'
SpacerBlock == DIV_OPEN \o BR \o DIV_CLOSE

\* '<div><b><font color=\"#0066CC\">${n}. ${sanitizeForAppleScriptHTML(mainText)}</font></b></div>'
NumberedBlock(n, mainText) ==
  DIV_OPEN \o B_OPEN \o FONT_OPEN \o NumStr(n) \o << ".", " " >>
    \o sanitizeForAppleScriptHTML(mainText) \o FONT_CLOSE \o B_CLOSE \o DIV_CLOSE

\* '<div><b>${n}. ${sanitizeForAppleScriptHTML(itemContent.trim())}</b></div>'
SimpleBlock(n, itemContent) ==
  DIV_OPEN \o B_OPEN \o NumStr(n) \o << ".", " " >>
    \o sanitizeForAppleScriptHTML(Trim(itemContent)) \o B_CLOSE \o DIV_CLOSE

\* What one top-level item adds to converted, n being its number.
ItemBlocks(fullItem, n) ==
  LET itemContent == StripItemTags(fullItem)
  IN IF HasListOpenTag(itemContent)
     THEN LET rawMainText == Trim(TruncateAtList(itemContent))
              mainText == Trim(StripTags(rawMainText, 0))
              nestedListMatch == NestedListMatch(itemContent)
              nestedItems == IF nestedListMatch[1]
                             THEN NestedItemTexts(NestedLis(nestedListMatch[2], 0))
                             ELSE << >>
          IN NumberedBlock(n, mainText) \o BulletBlocks(nestedItems) \o SpacerBlock
     ELSE SimpleBlock(n, itemContent)

\* The outer while loop over listContent: converted, from position pos with n items done.
RECURSIVE ConvertItems(_, _, _)
ConvertItems(c, pos, n) ==
  IF pos >= Len(c) THEN << >>
  ELSE LET start == IndexOf(c, LI_OPEN, pos)
           end == MatchItemEnd(c, 1, start + 3)
       IN IF start = -1 THEN << >>
          ELSE IF end = -1 THEN << >>
          ELSE ItemBlocks(Substring(c, start, end), n + 1) \o ConvertItems(c, end, n + 1)

\* The replace callback without its test for nesting: every <ol> match is rewritten.
ConvertEveryOrderedList(match, listContent) == ConvertItems(listContent, 0, 0)

\* The replace callback: an <ol> match without nesting is kept, one with nesting is rewritten.
ConvertOrderedList(match, listContent) ==
  IF ~hasNestedLists(match) THEN match ELSE ConvertItems(listContent, 0, 0)

\* Whether /<ol[^>]*>([\s\S]*?)<\/ol>/i matches at i.
OrderedListAt(s, i) ==
  /\ AtCI(s, i, OL_OPEN)
  /\ TagEnd(s, i + 3) # -1
  /\ IndexOfCI(s, OL_CLOSE, TagEnd(s, i + 3)) # -1

\* html.replace(/<ol[^>]*>([\s\S]*?)<\/ol>/gi, callback)
RECURSIVE ReplaceOrderedLists(_, _)
ReplaceOrderedLists(s, from) ==
  LET m == First({ i \in From(s, from) : OrderedListAt(s, i) })
      e == TagEnd(s, m + 3)
      c == IndexOfCI(s, OL_CLOSE, e)
  IN IF m = -1 THEN Tail0(s, from)
     ELSE Substring(s, from, m)
            \o ConvertOrderedList(Substring(s, m, c + 5), Substring(s, e, c))
            \o ReplaceOrderedLists(s, c + 5)

convertNestedListsToDivs(html) == ReplaceOrderedLists(html, 0)

----------------------------------------------------------------------------
(* ContentFormatter: formatNoteContent *)

\* A lookahead that asks only for a '>' somewhere after the newline at i.
InsideTagLoose(s, i) == IndexOfChar(s, GT, i + 1) # -1

\* The lookahead [^<]*> after the newline at i: a '>' comes before any '<'.
InsideTag(s, i) ==
  LET g == IndexOfChar(s, GT, i + 1)
      l == IndexOfChar(s, LT, i + 1)
  IN g # -1 /\ (l = -1 \/ g < l)

\* formatted.replace(/\n(?![^<]*>)/g, '<br>')
RECURSIVE NewlinesOutsideTagsToBr(_, _)
NewlinesOutsideTagsToBr(s, from) ==
  LET m == First({ i \in From(s, from) : s[i + 1] = NL /\ ~InsideTag(s, i) })
  IN IF m = -1 THEN Tail0(s, from)
     ELSE Substring(s, from, m) \o BR \o NewlinesOutsideTagsToBr(s, m + 1)

\* The plain branch with the pattern of the markup branch: a newline that a '>'
\* follows is kept.
NewlinesToBrOutsideTags(s) == NewlinesOutsideTagsToBr(s, 0)

\* formatted.replace(/\n/g, '<br>')
NewlinesToBr(s) == ReplaceChar(s, NL, BR)

\* The two replacements in the wrong order: the backslash put before a quote is doubled.
EscapeForLiteralQuotesFirst(s) == EscapeBackslashes(EscapeQuotes(s))

\* The literal-escaping step: backslashes first, then double quotes.
EscapeForLiteral(s) == EscapeQuotes(EscapeBackslashes(s))

\* The markup branch: list whitespace, flattening, newlines outside tags.
FormatMarkup(s) ==
  LET cleaned == CleanListWhitespace(s)
      flat == IF hasNestedLists(cleaned) THEN convertNestedListsToDivs(cleaned) ELSE cleaned
  IN NewlinesOutsideTagsToBr(flat, 0)

\* The answer of the call hasNestedLists(formatted) inside formatNoteContent(c).
NestedDetected(c) ==
  /\ c # << >>
  /\ hasHTMLTags(EscapeForLiteral(c))
  /\ hasNestedLists(CleanListWhitespace(EscapeForLiteral(c)))

\* The pipeline without its test for empty content.
formatNoteContentNoEmptyTest(c) ==
  LET escaped == EscapeForLiteral(c)
      body == IF hasHTMLTags(escaped) THEN FormatMarkup(escaped)
              ELSE NewlinesToBr(escaped)
  IN HTML_OPEN \o body \o HTML_CLOSE

formatNoteContent(c) ==
  IF c = << >> THEN << >>
  ELSE LET escaped == EscapeForLiteral(c)
           body == IF hasHTMLTags(escaped) THEN FormatMarkup(escaped)
                   ELSE NewlinesToBr(escaped)
       IN HTML_OPEN \o body \o HTML_CLOSE


----------------------------------------------------------------------------
(* runAppleScript (utils/applescript.ts) *)

\* An optional value: absent, or present with the value v.
None == << >>
Some(v) == << v >>

\* script.split('\n'), from position from on.
RECURSIVE SplitLinesFrom(_, _)
SplitLinesFrom(s, from) ==
  LET n == IndexOfChar(s, NL, from)
  IN IF n = -1 THEN << Tail0(s, from) >>
     ELSE << Substring(s, from, n) >> \o SplitLinesFrom(s, n + 1)

\* .map(line => line.trim())
TrimLines(ls) == [i \in 1..Len(ls) |-> Trim(ls[i])]

\* Every line is kept, the empty ones too.
RECURSIVE KeepAllLines(_)
KeepAllLines(ls) ==
  IF ls = << >> THEN << >> ELSE << Head(ls) >> \o KeepAllLines(Tail(ls))

\* .filter(line => line.length > 0)
RECURSIVE NonEmptyLines(_)
NonEmptyLines(ls) ==
  IF ls = << >> THEN << >>
  ELSE IF Len(Head(ls)) > 0 THEN << Head(ls) >> \o NonEmptyLines(Tail(ls))
  ELSE NonEmptyLines(Tail(ls))

\* const lines = script.split('\n').map(...).filter(...)
ScriptLines(s) == NonEmptyLines(TrimLines(SplitLinesFrom(s, 0)))

\* No script counts as empty.
NeverEmptyScript(ls) == FALSE

\* lines.length === 0
IsEmptyScript(ls) == Len(ls) = 0

\* The single quotes of the line are left as they are.
KeepSingleQuotes(line) == line

\* line.replace(/'/g, "'\\''")
EscapeSingleQuotes(line) == ReplaceChar(line, "'", << "'", BS, "'", "'" >>)

\* `-e '${escaped}'`
EFlag(line) == << "-", "e", " ", "'" >> \o EscapeSingleQuotes(line) \o << "'" >>

\* .join(' ')
RECURSIVE JoinBySpace(_)
JoinBySpace(parts) ==
  IF parts = << >> THEN << >>
  ELSE IF Len(parts) = 1 THEN Head(parts)
  ELSE Head(parts) \o << " " >> \o JoinBySpace(Tail(parts))

OSASCRIPT == << "o", "s", "a", "s", "c", "r", "i", "p", "t" >>

\* `osascript ${eFlags}`
BuildCommandString(ls) ==
  OSASCRIPT \o << " " >> \o JoinBySpace([i \in 1..Len(ls) |-> EFlag(ls[i])])

EMPTY_SCRIPT_ERROR ==
  << "E", "m", "p", "t", "y", " ", "A", "p", "p", "l", "e", "S", "c", "r",
     "i", "p", "t", " ", "p", "r", "o", "v", "i", "d", "e", "d" >>
FAILED_PREFIX ==
  << "F", "a", "i", "l", "e", "d", " ", "t", "o", " ", "e", "x", "e", "c",
     "u", "t", "e", " ", "A", "p", "p", "l", "e", "S", "c", "r", "i", "p",
     "t", ":", " " >>
UNKNOWN_ERROR ==
  << "U", "n", "k", "n", "o", "w", "n", " ", "e", "r", "r", "o", "r" >>

\* The message of the error is preferred to its stderr.
ErrorMessageFirst(stderr, message) ==
  IF message # << >> THEN message
  ELSE IF stderr # None /\ stderr[1] # << >> THEN stderr[1]
  ELSE UNKNOWN_ERROR

\* stderr || error.message || 'Unknown error', stderr being
\* error.stderr?.toString() || ''.
ErrorMessage(stderr, message) ==
  LET stderrText == IF stderr = None THEN << >> ELSE stderr[1]
  IN IF stderrText # << >> THEN stderrText
     ELSE IF message # << >> THEN message
     ELSE UNKNOWN_ERROR

\* The result returned for an empty script.
EmptyScriptResult == [success |-> FALSE, output |-> << >>, error |-> Some(EMPTY_SCRIPT_ERROR)]

\* The result returned after execSync returned out.
SuccessResult(out) == [success |-> TRUE, output |-> Trim(out), error |-> None]

\* The result returned from the catch block.
FailureResult(stderr, message) ==
  [success |-> FALSE, output |-> << >>,
   error |-> Some(FAILED_PREFIX \o ErrorMessage(stderr, message))]

\* What execSync did: it returned output, or it threw an error with a message
\* and, when the process wrote one, a stderr.
Returned(out) == [threw |-> FALSE, output |-> out, stderr |-> None, message |-> << >>]
Threw(stderr, message) == [threw |-> TRUE, output |-> << >>, stderr |-> stderr, message |-> message]

\* What runAppleScript returns for a script of lines ls when execSync, if it is
\* reached, does what outcome says.
ResultOf(ls, outcome) ==
  IF IsEmptyScript(ls) THEN EmptyScriptResult
  ELSE IF outcome.threw THEN FailureResult(outcome.stderr, outcome.message)
  ELSE SuccessResult(outcome.output)

\* runAppleScript(s) when execSync, if it is reached, does what outcome says.
runAppleScript(s, outcome) == ResultOf(ScriptLines(s), outcome)

----------------------------------------------------------------------------
(* AppleNotesManager (services/appleNotesManager.ts) *)

\* ICLOUD_ACCOUNT
ICLOUD_ACCOUNT ==
  << "i", "C", "l", "o", "u", "d" >>

\* The test script of detectAvailableAccount up to the account name, as written.
TEST_SCRIPT_TEMPLATE_HEAD ==
  << "\n", "t", "e", "l", "l", " ", "a", "p", "p", "l", "i", "c", "a", "t",
     "i", "o", "n", " ", "\"", "N", "o", "t", "e", "s", "\"", "\n", " ",
     " ", "t", "e", "l", "l", " ", "a", "c", "c", "o", "u", "n", "t", " ",
     "\"" >>

\* The test script after the account name, as written.
TEST_SCRIPT_TEMPLATE_TAIL ==
  << "\"", "\n", " ", " ", " ", " ", "r", "e", "t", "u", "r", "n", " ",
     "\"", "O", "K", "\"", "\n", " ", " ", "e", "n", "d", " ", "t", "e",
     "l", "l", "\n", "e", "n", "d", " ", "t", "e", "l", "l", "\n", " ",
     " ", " ", " " >>

\* testScript: the template with the account name put in, trimmed.
testScript == Trim(TEST_SCRIPT_TEMPLATE_HEAD \o ICLOUD_ACCOUNT \o TEST_SCRIPT_TEMPLATE_TAIL)

\* The account detection that answers iCloud whatever the test script did.
detectICloudAlways(probe) == Some(ICLOUD_ACCOUNT)

\* detectAvailableAccount() when running the test script returns result.
detectAvailableAccount(probe) == IF probe.success THEN Some(ICLOUD_ACCOUNT) ELSE None

\* buildScript with an account: the template before ${this.accountName}.
ACCOUNT_HEAD ==
  << "\n", "t", "e", "l", "l", " ", "a", "p", "p", "l", "i", "c", "a", "t",
     "i", "o", "n", " ", "\"", "N", "o", "t", "e", "s", "\"", "\n", " ",
     " ", "t", "e", "l", "l", " ", "a", "c", "c", "o", "u", "n", "t", " ",
     "\"" >>

\* Between ${this.accountName} and ${command}.
ACCOUNT_MID ==
  << "\"", "\n", " ", " ", " ", " " >>

\* After ${command}.
ACCOUNT_TAIL ==
  << "\n", " ", " ", "e", "n", "d", " ", "t", "e", "l", "l", "\n", "e",
     "n", "d", " ", "t", "e", "l", "l", "\n", " ", " ", " ", " ", " ",
     " " >>

\* buildScript without an account: the template before ${command}.
DEFAULT_HEAD ==
  << "\n", "t", "e", "l", "l", " ", "a", "p", "p", "l", "i", "c", "a", "t",
     "i", "o", "n", " ", "\"", "N", "o", "t", "e", "s", "\"", "\n", " ",
     " " >>

\* After ${command}.
DEFAULT_TAIL ==
  << "\n", "e", "n", "d", " ", "t", "e", "l", "l", "\n", " ", " ", " ",
     " " >>

\* if (this.accountName): null and the empty string are falsy.
HasAccount(account) == account # None /\ account[1] # << >>

\* buildScript(command) of a manager whose accountName is account.
buildScript(account, cmd) ==
  IF HasAccount(account)
  THEN Trim(ACCOUNT_HEAD \o account[1] \o ACCOUNT_MID \o cmd \o ACCOUNT_TAIL)
  ELSE Trim(DEFAULT_HEAD \o cmd \o DEFAULT_TAIL)

\* createNote: the command before ${escapedTitle}.
MAKE_NOTE_HEAD ==
  << "m", "a", "k", "e", " ", "n", "e", "w", " ", "n", "o", "t", "e", " ",
     "w", "i", "t", "h", " ", "p", "r", "o", "p", "e", "r", "t", "i", "e",
     "s", " ", "{", "n", "a", "m", "e", ":", "\"" >>

\* Between ${escapedTitle} and ${escapedContent}.
MAKE_NOTE_MID ==
  << "\"", ",", " ", "b", "o", "d", "y", ":", "\"" >>

\* After ${escapedContent}.
MAKE_NOTE_TAIL ==
  << "\"", "}" >>

\* The command with the caller's title and content put in as they are.
MakeNoteCommandRaw(title, body) ==
  MAKE_NOTE_HEAD \o title \o MAKE_NOTE_MID \o body \o MAKE_NOTE_TAIL

\* createNote: command.
MakeNoteCommand(title, body) ==
  MAKE_NOTE_HEAD \o escapeAppleScriptString(title) \o MAKE_NOTE_MID
    \o formatNoteContent(body) \o MAKE_NOTE_TAIL

\* searchNotes: the command before ${escapedQuery}.
SEARCH_HEAD ==
  << "g", "e", "t", " ", "n", "a", "m", "e", " ", "o", "f", " ", "n", "o",
     "t", "e", "s", " ", "w", "h", "e", "r", "e", " ", "n", "a", "m", "e",
     " ", "c", "o", "n", "t", "a", "i", "n", "s", " ", "\"" >>

\* searchNotes: command.
SearchCommand(query) == SEARCH_HEAD \o escapeAppleScriptString(query) \o << DQ >>

\* getNoteContent: the command before ${escapedTitle}.
GET_BODY_HEAD ==
  << "g", "e", "t", " ", "b", "o", "d", "y", " ", "o", "f", " ", "n", "o",
     "t", "e", " ", "\"" >>

\* getNoteContent: command.
GetBodyCommand(title) == GET_BODY_HEAD \o escapeAppleScriptString(title) \o << DQ >>

\* The separator of the list of names that the Notes application prints.
COMMA_SPACE == << ",", " " >>

\* result.output.split(', '), the pieces from position from on.
RECURSIVE SplitNamesFrom(_, _)
SplitNamesFrom(s, from) ==
  LET n == IndexOf(s, COMMA_SPACE, from)
  IN IF n = -1 THEN << Tail0(s, from) >>
     ELSE << Substring(s, from, n) >> \o SplitNamesFrom(s, n + Len(COMMA_SPACE))

\* .map(title => title.trim())
TrimNames(names) == [i \in 1..Len(names) |-> Trim(names[i])]

\* .filter(Boolean): the empty string is the only falsy string.
RECURSIVE TruthyNames(_)
TruthyNames(names) ==
  IF names = << >> THEN << >>
  ELSE (IF Head(names) # << >> THEN << Head(names) >> ELSE << >>)
         \o TruthyNames(Tail(names))

\* The titles searchNotes reads out of result.output.
NamesOf(output) == TruthyNames(TrimNames(SplitNamesFrom(output, 0)))

\* A Note object.
Note(id, title, body, tags, created, modified) ==
  [id |-> id, title |-> title, content |-> body, tags |-> tags,
   created |-> created, modified |-> modified]

\* What a manager operation hands back: null, a Note, an array of Notes or a string.
ReturnNull == [kind |-> "null", value |-> << >>]
ReturnNote(note) == [kind |-> "note", value |-> note]
ReturnNotes(notes) == [kind |-> "notes", value |-> notes]
ReturnString(text) == [kind |-> "string", value |-> text]

\* The arguments of a call; an operation leaves empty those it does not take.
CreateNoteCall(title, body, tags) ==
  [op |-> "createNote", title |-> title, content |-> body, tags |-> tags, query |-> << >>]
SearchNotesCall(query) ==
  [op |-> "searchNotes", title |-> << >>, content |-> << >>, tags |-> << >>, query |-> query]
GetNoteContentCall(title) ==
  [op |-> "getNoteContent", title |-> title, content |-> << >>, tags |-> << >>, query |-> << >>]

\* createNote without the test of result.success: the Note is returned always.
CreateNoteReturnUnchecked(res, note) == ReturnNote(note)

\* createNote: null when the script failed, else a Note of the caller's values.
CreateNoteReturn(res, note) == IF ~res.success THEN ReturnNull ELSE ReturnNote(note)

\* searchNotes: [] when the script failed, else one Note per name of the output.
SearchNotesReturn(res, ids, created, modified) ==
  IF ~res.success THEN ReturnNotes(<< >>)
  ELSE LET names == NamesOf(res.output)
       IN ReturnNotes([i \in 1..Len(names) |->
            Note(ids[i], names[i], << >>, << >>, created, modified)])

\* getNoteContent: '' when the script failed, else the output.
GetNoteContentReturn(res) == IF ~res.success THEN ReturnString(<< >>) ELSE ReturnString(res.output)

----------------------------------------------------------------------------
(* The tools of the server (index.ts) *)

\* create-note: the text answered when no note was created.
FAILED_TO_CREATE ==
  << "F", "a", "i", "l", "e", "d", " ", "t", "o", " ", "c", "r", "e", "a",
     "t", "e", " ", "n", "o", "t", "e", ".", " ", "P", "l", "e", "a", "s",
     "e", " ", "c", "h", "e", "c", "k", " ", "y", "o", "u", "r", " ", "A",
     "p", "p", "l", "e", " ", "N", "o", "t", "e", "s", " ", "c", "o", "n",
     "f", "i", "g", "u", "r", "a", "t", "i", "o", "n", "." >>

\* create-note: the text before ${note.title}; its first character is U+2705.
CHECK_MARK == "U+2705"
CREATED_HEAD ==
  << CHECK_MARK >> \o
  << " ", "N", "o", "t", "e", " ", "c", "r", "e", "a", "t", "e", "d", " ",
     "s", "u", "c", "c", "e", "s", "s", "f", "u", "l", "l", "y", ":", " ",
     "\"" >>

\* search-notes: the text answered for an empty array.
NO_NOTES_FOUND ==
  << "N", "o", " ", "n", "o", "t", "e", "s", " ", "f", "o", "u", "n", "d",
     " ", "m", "a", "t", "c", "h", "i", "n", "g", " ", "y", "o", "u", "r",
     " ", "q", "u", "e", "r", "y" >>

\* search-notes: the text before ${notes.length}.
FOUND_HEAD ==
  << "F", "o", "u", "n", "d", " " >>

\* Between ${notes.length} and the list of titles.
FOUND_MID ==
  << " ", "n", "o", "t", "e", "s", ":", "\n" >>

\* get-note-content: the text answered for an empty content.
NOTE_NOT_FOUND ==
  << "N", "o", "t", "e", " ", "n", "o", "t", " ", "f", "o", "u", "n", "d" >>

\* { content: [{ type: "text", text }] } with isError when it is given.
TextResponse(text, isError) ==
  [content |-> << [type |-> "text", text |-> text] >>, isError |-> isError]

\* notes.map(note => `U+2022 ${note.title}`).join('\n')
RECURSIVE TitleLines(_)
TitleLines(notes) ==
  IF notes = << >> THEN << >>
  ELSE << BULLET, " " >> \o Head(notes).title
         \o (IF Len(notes) = 1 THEN << >> ELSE << NL >> \o TitleLines(Tail(notes)))

\* The handler of create-note without the isError flag on its failure answer.
CreateNoteResponseUnflagged(note) ==
  IF note.kind = "null" THEN TextResponse(FAILED_TO_CREATE, None)
  ELSE TextResponse(CREATED_HEAD \o note.value.title \o << DQ >>, None)

\* The handler of create-note, given what createNote returned.
CreateNoteResponse(note) ==
  IF note.kind = "null" THEN TextResponse(FAILED_TO_CREATE, Some(TRUE))
  ELSE TextResponse(CREATED_HEAD \o note.value.title \o << DQ >>, None)

\* The handler of search-notes, given what searchNotes returned.
SearchNotesResponse(notes) ==
  IF Len(notes.value) # 0
  THEN TextResponse(FOUND_HEAD \o NumStr(Len(notes.value)) \o FOUND_MID
                      \o TitleLines(notes.value), None)
  ELSE TextResponse(NO_NOTES_FOUND, None)

\* The handler of get-note-content, given what getNoteContent returned.
GetNoteContentResponse(text) ==
  TextResponse(IF text.value # << >> THEN text.value ELSE NOTE_NOT_FOUND, None)

----------------------------------------------------------------------------
(* Inputs *)

\* Concatenation of a sequence of strings.
RECURSIVE Concat(_)
Concat(parts) == IF parts = << >> THEN << >> ELSE Head(parts) \o Concat(Tail(parts))

\* All sequences over S of length 0..n.
SeqsUpTo(S, n) == UNION { [1..k -> S] : k \in 0..n }

MaxPlain == 4
MaxFrags == 3
MaxItems == 2
MaxSub == 2

OL == << "<", "o", "l", ">" >>
UL == << "<", "u", "l", ">" >>
LI == << "<", "l", "i", ">" >>
ListKinds == { "ol", "ul" }
OpenTag(kind) == IF kind = "ol" THEN OL ELSE UL
CloseTag(kind) == IF kind = "ol" THEN OL_CLOSE ELSE UL_CLOSE
Element(kind, body) == OpenTag(kind) \o body \o CloseTag(kind)
Item(body) == LI \o body \o LI_CLOSE

\* Plain text and stray delimiters, character by character.
PlainChars == { "a", NL, DQ, BS, LT, GT }
\* 'line1\nline2'
TwoLines == << "l", "i", "n", "e", "1", NL, "l", "i", "n", "e", "2" >>
PlainInputs == SeqsUpTo(PlainChars, MaxPlain) \cup { TwoLines }

\* Tag soup: unbalanced, misordered and upper-case tags.
Frags == { OL, OL_CLOSE, UL, UL_CLOSE, LI, LI_CLOSE, << "a" >>, << NL >>,
           << DQ >>, << BS >>, << GT >>, << "<", "L", "I", ">" >> }
FragInputs == { Concat(f) : f \in SeqsUpTo(Frags, MaxFrags) }

\* Item texts: a letter, a quote, a backslash, two lines.
Texts == { << "A" >>, << DQ >>, << BS >>, << "x", NL, "y" >> }
Separators == { << >>, << NL >>, << " ", NL, " " >> }

\* A list of items with the separator sep after the opening tag, between the
\* items and before the closing tag.
RECURSIVE JoinItems(_, _)
JoinItems(items, sep) ==
  IF items = << >> THEN << >> ELSE Item(Head(items)) \o sep \o JoinItems(Tail(items), sep)

ListOf(kind, items, sep) == Element(kind, sep \o JoinItems(items, sep))

\* Single-level lists of 1..MaxItems items.
SimpleLists ==
  { ListOf(k, items, sep) :
      k \in ListKinds, items \in SeqsUpTo(Texts, MaxItems) \ { << >> }, sep \in Separators }

\* Two single-level lists one after the other.
SiblingLists ==
  { ListOf(k1, << t >>, << >>) \o ListOf(k2, << t >>, << >>) :
      k1 \in ListKinds, k2 \in ListKinds, t \in Texts }

\* A list whose last item holds a nested list of 0..MaxSub items, after 0..1 simple
\* items, with text before and after the nested list.
LeadTexts == { << >>, << "B" >>, << BS, DQ >> }
SubTexts == { << "x" >>, << DQ >>, << "y", BS >> }
TailTexts == { << >>, << "t" >> }
NestedLists ==
  { Element(ko, JoinItems(lead, << >>)
                  \o Item(main \o ListOf(ki, subs, sep) \o tl)) :
      ko \in ListKinds, ki \in ListKinds,
      lead \in SeqsUpTo({ << "A" >> }, MaxItems - 1),
      main \in LeadTexts, subs \in SeqsUpTo(SubTexts, MaxSub),
      tl \in TailTexts, sep \in { << >>, << NL >> } }

\* A nested list between two pieces of text.
WrappedLists ==
  { pre \o Element(ko, Item(<< "B" >> \o Element(ki, Item(<< "x" >>)))) \o post :
      ko \in ListKinds, ki \in ListKinds,
      pre \in { << "p", BS >>, UL, << "p", NL >> },
      post \in { << BS, DQ >>, << NL, GT >>, << NL, "q" >> } }

\* A single-level list whose item text starts or ends with a line break.
PaddedItems ==
  { Element(k, Item(<< NL >> \o t)) : k \in ListKinds, t \in Texts }
    \cup { Element(k, Item(t \o << NL >>)) : k \in ListKinds, t \in Texts }

Inputs ==
  PlainInputs \cup FragInputs \cup SimpleLists \cup SiblingLists
    \cup NestedLists \cup WrappedLists \cup PaddedItems

----------------------------------------------------------------------------
(* The formatter as a state machine *)

\* No escaper has been called.
NoEsc ==
  /\ str = << >>
  /\ escapedLiteral = << >>
  /\ htmlSafe = << >>
  /\ scriptHtmlSafe = << >>
  /\ escPc = "idle"

NoOutcome == Returned(<< >>)
NoResult == [success |-> FALSE, output |-> << >>, error |-> None]

\* runAppleScript has not been called.
NoRun ==
  /\ script = << >>
  /\ lines = << >>
  /\ command = << >>
  /\ execCalls = 0
  /\ execOutcome = NoOutcome
  /\ result = NoResult
  /\ runPc = "idle"

NoCall == [op |-> "none", title |-> << >>, content |-> << >>, tags |-> << >>, query |-> << >>]
NoReturn == [kind |-> "none", value |-> << >>]
NoResponse == [content |-> << >>, isError |-> None]

\* No manager has been constructed.
NoMgr ==
  /\ accountName = None
  /\ probes = 0
  /\ call = NoCall
  /\ returned = NoReturn
  /\ matched = << >>
  /\ mgrPc = "idle"
  /\ tool = "none"
  /\ response = NoResponse

NoUtil == NoEsc /\ NoRun /\ NoMgr

\* convertNestedListsToDivs has not been called on its own.
NoFlat ==
  /\ pieces = << >>
  /\ flatInput = << >>
  /\ flattened = << >>
  /\ flatPc = "idle"

NoScan ==
  /\ scanContent = << >>
  /\ currentPos = 0
  /\ liStart = -1
  /\ depth = 0
  /\ searchPos = 0
  /\ liEnd = -1
  /\ mainItemCounter = 0
  /\ converted = << >>
  /\ scanPc = "idle"

Init ==
  /\ content \in Inputs
  /\ formatted = << >>
  /\ detected = FALSE
  /\ reformatted = << >>
  /\ pc = "input"
  /\ NoFlat
  /\ NoScan
  /\ NoUtil

\* createNote's call formatNoteContent(content).
Format ==
  /\ pc = "input"
  /\ formatted' = formatNoteContent(content)
  /\ detected' = NestedDetected(content)
  /\ pc' = "formatted"
  /\ UNCHANGED << content, reformatted, flatVars >>
  /\ UNCHANGED scanVars
  /\ UNCHANGED utilVars

\* formatNoteContent applied to its own output.
Reformat ==
  /\ pc = "formatted"
  /\ reformatted' = formatNoteContent(formatted)
  /\ pc' = "reformatted"
  /\ UNCHANGED << content, formatted, detected, flatVars >>
  /\ UNCHANGED scanVars
  /\ UNCHANGED utilVars

Next == Format \/ Reformat

Spec == Init /\ [][Next]_vars

----------------------------------------------------------------------------
(* convertNestedListsToDivs called on its own *)

\* Ordered lists: single-level ones, and ones whose item holds a nested list,
\* alone or after a simple item, with text after the nested list, with a second
\* nested list, with an ordered nested list, with no text before the nested list.
OL_UPPER == << "<", "O", "L", ">" >>
OL_CLOSE_UPPER == << "<", "/", "O", "L", ">" >>
SimpleOrderedLists ==
  { OL \o Item(<< "A" >>) \o OL_CLOSE,
    OL \o Item(<< "A" >>) \o Item(<< "B" >>) \o OL_CLOSE,
    OL_UPPER \o Item(<< "A" >>) \o OL_CLOSE_UPPER }
NestedOrderedLists ==
  { OL \o Item(<< "B" >> \o UL \o Item(<< "x" >>) \o UL_CLOSE) \o OL_CLOSE,
    OL \o Item(<< "A" >>)
       \o Item(<< "B" >> \o UL \o Item(<< "x" >>) \o Item(<< "y" >>) \o UL_CLOSE)
       \o OL_CLOSE,
    OL \o Item(<< "B" >> \o UL \o Item(<< "x" >>) \o UL_CLOSE \o << "t" >>) \o OL_CLOSE,
    OL \o Item(<< "B" >> \o UL \o Item(<< "x" >>) \o UL_CLOSE
                        \o UL \o Item(<< "y" >>) \o UL_CLOSE) \o OL_CLOSE,
    OL \o Item(<< "B" >> \o OL \o Item(<< "x" >>) \o OL_CLOSE) \o OL_CLOSE,
    OL \o Item(UL \o Item(<< "x" >>) \o UL_CLOSE) \o OL_CLOSE }
OrderedLists == SimpleOrderedLists \cup NestedOrderedLists

\* Text around the ordered lists: nothing, letters, a line break, an unordered
\* list, stray closing tags.
TextsBefore == { << >>, << "p" >>, UL \o Item(<< "u" >>) \o UL_CLOSE, OL_CLOSE }
TextsBetween == { << >>, << "m" >>, << NL >> }
TextsAfter == { << >>, << "q" >>, LI_CLOSE }

\* Text, ordered list, text, ordered list or nothing, text.
FlatPieces ==
  { << pre, l1, mid, l2, post >> :
      pre \in TextsBefore, l1 \in OrderedLists, mid \in TextsBetween,
      l2 \in OrderedLists \cup { << >> }, post \in TextsAfter }

FlatInit ==
  /\ pieces \in FlatPieces
  /\ flatInput = Concat(pieces)
  /\ flattened = << >>
  /\ flatPc = "input"
  /\ content = << >>
  /\ formatted = << >>
  /\ detected = FALSE
  /\ reformatted = << >>
  /\ pc = "idle"
  /\ NoScan
  /\ NoUtil

\* The call convertNestedListsToDivs(html) with html = flatInput.
Flatten ==
  /\ flatPc = "input"
  /\ flattened' = convertNestedListsToDivs(flatInput)
  /\ flatPc' = "done"
  /\ UNCHANGED << pieces, flatInput >>
  /\ UNCHANGED << content, formatted, detected, reformatted, pc >>
  /\ UNCHANGED scanVars
  /\ UNCHANGED utilVars

FlatNext == Flatten

FlatSpec == FlatInit /\ [][FlatNext]_vars


----------------------------------------------------------------------------
(* The item scan of convertNestedListsToDivs, one loop iteration per step *)

MaxScanFrags == 5

\* Contents of an <ol> match that the callback scans, the match holding a nested
\* list: item tags in any order, text, a whole simple item, a whole nested list.
ScanFrags == { LI, LI_CLOSE, << "a" >>, LI \o << "A" >> \o LI_CLOSE,
               UL \o LI \o << "x" >> \o LI_CLOSE \o UL_CLOSE }
ScanInputs ==
  { c \in { Concat(f) : f \in SeqsUpTo(ScanFrags, MaxScanFrags) } :
      hasNestedLists(OL \o c \o OL_CLOSE) }

NoFormat ==
  /\ content = << >>
  /\ formatted = << >>
  /\ detected = FALSE
  /\ reformatted = << >>
  /\ pc = "idle"
  /\ NoFlat

\* Before the replace callback runs on the content of an <ol> match.
ScanInit ==
  /\ scanContent = << >>
  /\ currentPos = 0
  /\ liStart = -1
  /\ depth = 0
  /\ searchPos = 0
  /\ liEnd = -1
  /\ mainItemCounter = 0
  /\ converted = << >>
  /\ scanPc = "call"
  /\ NoFormat
  /\ NoUtil

\* The callback is entered with an <ol> match that holds a nested list: its
\* content is bound and the loop variables are initialised.
EnterScan ==
  /\ scanPc = "call"
  /\ scanContent' \in ScanInputs
  /\ currentPos' = 0
  /\ mainItemCounter' = 0
  /\ converted' = << >>
  /\ scanPc' = "outer"
  /\ UNCHANGED << liStart, depth, searchPos, liEnd >>
  /\ UNCHANGED fmtVars
  /\ UNCHANGED utilVars

\* The head of the outer loop: its condition, indexOf('<li', currentPos) and the
\* set-up of the depth scan; the loop ends when no item opens at or after currentPos.
FindItem ==
  /\ scanPc = "outer"
  /\ LET start == IndexOf(scanContent, LI_OPEN, currentPos)
     IN IF currentPos < Len(scanContent) /\ start # -1
        THEN /\ liStart' = start
             /\ depth' = 1
             /\ searchPos' = start + 3
             /\ liEnd' = -1
             /\ scanPc' = "inner"
        ELSE /\ scanPc' = "done"
             /\ UNCHANGED << liStart, depth, searchPos, liEnd >>
  /\ UNCHANGED << scanContent, currentPos, mainItemCounter, converted >>
  /\ UNCHANGED fmtVars
  /\ UNCHANGED utilVars

\* One test of the inner loop's condition and, when it holds, one pass through its body.
ScanStep ==
  /\ scanPc = "inner"
  /\ IF depth > 0 /\ searchPos < Len(scanContent)
     THEN LET r == InnerStep(scanContent, depth, searchPos)
          IN /\ depth' = r.depth
             /\ searchPos' = r.searchPos
             /\ liEnd' = r.liEnd
             /\ scanPc' = IF r.break THEN "after" ELSE "inner"
     ELSE /\ scanPc' = "after"
          /\ UNCHANGED << depth, searchPos, liEnd >>
  /\ UNCHANGED << scanContent, currentPos, liStart, mainItemCounter, converted >>
  /\ UNCHANGED fmtVars
  /\ UNCHANGED utilVars

\* Where the rest of the outer loop's body leaves the loop: an unmatched item ends
\* the scan of the list, a matched one is stepped over.
EmitItemControl ==
  /\ scanPc = "after"
  /\ currentPos' = IF liEnd = -1 THEN Len(scanContent) ELSE liEnd
  /\ scanPc' = "outer"
  /\ UNCHANGED << liStart, depth, searchPos, liEnd >>

\* The rest of the outer loop's body: an unmatched item is skipped with the rest of
\* the list, a matched one is numbered, turned into blocks and stepped over.
EmitItem ==
  /\ EmitItemControl
  /\ IF liEnd = -1
     THEN UNCHANGED << mainItemCounter, converted >>
     ELSE /\ mainItemCounter' = mainItemCounter + 1
          /\ converted' = converted
               \o ItemBlocks(Substring(scanContent, liStart, liEnd), mainItemCounter + 1)
  /\ UNCHANGED scanContent
  /\ UNCHANGED fmtVars
  /\ UNCHANGED utilVars

ScanNext == EnterScan \/ FindItem \/ ScanStep \/ EmitItem

ScanSpec == ScanInit /\ [][ScanNext]_vars

\* The control flow of the two loops: every step of ScanNext is one of these.
loopVars == << scanPc, currentPos, liStart, depth, searchPos, liEnd >>
LoopControl == EnterScan \/ FindItem \/ ScanStep \/ EmitItemControl

\* The loops run in one synchronous call: a step that can be taken is taken.
FairScanSpec == ScanSpec /\ WF_loopVars(LoopControl)


----------------------------------------------------------------------------
(* The three escapers as a state machine *)

MaxEsc == 4

\* A letter, the characters the escapers rewrite, and the ';' that ends an entity.
EscChars == { "a", BS, DQ, CR, "&", LT, GT, "'", ";" }

\* Text that already reads as an entity.
Entities == { AMP_ENT, LT_ENT, GT_ENT, QUOT_ENT, APOS_ENT, LDQUO_ENT }

EscInputs ==
  SeqsUpTo(EscChars, MaxEsc)
    \cup { e \o s : e \in Entities, s \in SeqsUpTo(EscChars, 1) }
    \cup { s \o e : e \in Entities, s \in SeqsUpTo(EscChars, 1) }

EscInit ==
  /\ str \in EscInputs
  /\ escapedLiteral = << >>
  /\ htmlSafe = << >>
  /\ scriptHtmlSafe = << >>
  /\ escPc = "input"
  /\ NoFormat
  /\ NoScan
  /\ NoRun
  /\ NoMgr

\* The call escapeAppleScriptString(str).
EscapeLiteral ==
  /\ escPc = "input"
  /\ escapedLiteral' = escapeAppleScriptString(str)
  /\ escPc' = "escapeAppleScriptString"
  /\ UNCHANGED << str, htmlSafe, scriptHtmlSafe >>
  /\ UNCHANGED << fmtVars, scanVars, runVars, mgrVars >>

\* The call sanitizeForHTML(str).
SanitizeHTML ==
  /\ escPc = "input"
  /\ htmlSafe' = sanitizeForHTML(str)
  /\ escPc' = "sanitizeForHTML"
  /\ UNCHANGED << str, escapedLiteral, scriptHtmlSafe >>
  /\ UNCHANGED << fmtVars, scanVars, runVars, mgrVars >>

\* The call sanitizeForAppleScriptHTML(str).
SanitizeScriptHTML ==
  /\ escPc = "input"
  /\ scriptHtmlSafe' = sanitizeForAppleScriptHTML(str)
  /\ escPc' = "sanitizeForAppleScriptHTML"
  /\ UNCHANGED << str, escapedLiteral, htmlSafe >>
  /\ UNCHANGED << fmtVars, scanVars, runVars, mgrVars >>

EscNext == EscapeLiteral \/ SanitizeHTML \/ SanitizeScriptHTML

EscSpec == EscInit /\ [][EscNext]_vars

----------------------------------------------------------------------------
(* runAppleScript as a state machine *)

MaxScript == 4

\* A letter, white space, the line separator and characters the shell gives a meaning.
ScriptChars == { "a", " ", NL, "'", "$", DQ }

\* The script of the multi-line test, indented lines between blank ones.
MultiLineScript ==
  << "\n", " ", " ", " ", " ", " ", " ", "t", "e", "l", "l", " ", "a", "p",
     "p", "l", "i", "c", "a", "t", "i", "o", "n", " ", "\"", "N", "o", "t",
     "e", "s", "\"", "\n", " ", " ", " ", " ", " ", " ", " ", " ", "r",
     "e", "t", "u", "r", "n", " ", "\"", "m", "u", "l", "t", "i", "-", "l",
     "i", "n", "e", " ", "t", "e", "s", "t", "\"", "\n", " ", " ", " ",
     " ", " ", " ", "e", "n", "d", " ", "t", "e", "l", "l", "\n", " ", " ",
     " ", " " >>

\* 'echo "$(rm -rf /)"'
ShellMetaScript ==
  << "e", "c", "h", "o", " ", "\"", "$", "(", "r", "m", " ", "-", "r", "f",
     " ", "/", ")", "\"" >>

ScriptInputs == SeqsUpTo(ScriptChars, MaxScript) \cup { MultiLineScript, ShellMetaScript }

\* What execSync may write before it returns.
ExecOutputs == { << >>, << "o", "k" >>, << " ", "o", "k", NL >> }

INVALID_SYNTAX ==
  << "E", "r", "r", "o", "r", ":", " ", "I", "n", "v", "a", "l", "i", "d",
     " ", "s", "y", "n", "t", "a", "x" >>
APPLESCRIPT_ERROR ==
  << "A", "p", "p", "l", "e", "S", "c", "r", "i", "p", "t", " ", "e", "r",
     "r", "o", "r" >>

\* What the error thrown by execSync may carry.
ExecStderrs == { None, Some(<< >>), Some(INVALID_SYNTAX) }
ExecMessages == { << >>, APPLESCRIPT_ERROR }

ExecOutcomes ==
  { Returned(out) : out \in ExecOutputs }
    \cup { Threw(stderr, message) : stderr \in ExecStderrs, message \in ExecMessages }

RunInit ==
  /\ script \in ScriptInputs
  /\ lines = << >>
  /\ command = << >>
  /\ execCalls = 0
  /\ execOutcome = NoOutcome
  /\ result = NoResult
  /\ runPc = "called"
  /\ NoFormat
  /\ NoScan
  /\ NoEsc
  /\ NoMgr

\* The script is split into its trimmed non-empty lines; an empty script is
\* answered at once, any other becomes the osascript command.
BuildCommand ==
  /\ runPc = "called"
  /\ lines' = ScriptLines(script)
  /\ IF IsEmptyScript(lines')
     THEN /\ result' = EmptyScriptResult
          /\ runPc' = "returned"
          /\ UNCHANGED command
     ELSE /\ command' = BuildCommandString(lines')
          /\ runPc' = "built"
          /\ UNCHANGED result
  /\ UNCHANGED << script, execCalls, execOutcome >>
  /\ UNCHANGED << fmtVars, scanVars, escVars, mgrVars >>

\* execSync(command, ...) returns an output or throws; either way a result is returned.
Execute ==
  /\ runPc = "built"
  /\ \E outcome \in ExecOutcomes :
       /\ execOutcome' = outcome
       /\ result' = IF outcome.threw THEN FailureResult(outcome.stderr, outcome.message)
                    ELSE SuccessResult(outcome.output)
  /\ execCalls' = execCalls + 1
  /\ runPc' = "returned"
  /\ UNCHANGED << script, lines, command >>
  /\ UNCHANGED << fmtVars, scanVars, escVars, mgrVars >>

RunNext == BuildCommand \/ Execute

RunSpec == RunInit /\ [][RunNext]_vars

----------------------------------------------------------------------------
(* The manager as a state machine *)

\* Titles and queries: empty, with the characters the escaper rewrites, and
\* with a line break.
MgrTitles == { << >>, << "a", DQ, BS >>, << "a", NL, "b" >> }

\* Note contents: empty, two lines, markup, markup with a line break inside a tag.
MgrContents ==
  { << >>, << "a", NL, "b" >>, << LT, "b", GT, "x", LT, "/", "b", GT >>,
    << LT, "b", NL, GT, "x", LT, "/", "b", GT >> }

MgrTags == { << >>, << << "t", "a", "g" >> >> }

\* 'Note 1, Note 2, Note 3'
THREE_NOTES ==
  << "N", "o", "t", "e", " ", "1", ",", " ", "N", "o", "t", "e", " ", "2",
     ",", " ", "N", "o", "t", "e", " ", "3" >>

\* What osascript may print: nothing, a body, a list of names.
MgrOutputs ==
  { << >>, << "o", "k" >>, THREE_NOTES, << "a", ",", "b", ",", " ", "c" >> }

\* How osascript prints a list of names: the names with ', ' between them.
RECURSIVE JoinNames(_)
JoinNames(names) ==
  IF names = << >> THEN << >>
  ELSE IF Len(names) = 1 THEN Head(names)
  ELSE Head(names) \o COMMA_SPACE \o JoinNames(Tail(names))

\* 'Note 1', 'Note 2', 'Note 3'
THREE_NAMES ==
  << << "N", "o", "t", "e", " ", "1" >>, << "N", "o", "t", "e", " ", "2" >>,
     << "N", "o", "t", "e", " ", "3" >> >>

\* The notes a search may match: none, one, the three of the test, a name with a
\* bare comma, and a name that holds a comma and a space.
NameLists ==
  { << >>, << << "a" >> >>, THREE_NAMES,
    << << "a", ",", "b" >>, << "c" >> >>,
    << << "a", ",", " ", "b" >>, << "c" >> >> }

\* What execSync does for a search that matched names.
SearchOutcomes(names) ==
  { Returned(JoinNames(names)) }
    \cup { Threw(Some(INVALID_SYNTAX), APPLESCRIPT_ERROR), Threw(None, << >>) }

MgrOutcomes ==
  { Returned(out) : out \in MgrOutputs }
    \cup { Threw(Some(INVALID_SYNTAX), APPLESCRIPT_ERROR), Threw(None, << >>) }

\* generateNoteId() and new Date(): values the model only tells apart.
MaxIds == 2
MaxClock == 1
NoteIds == 1..MaxIds
Times == 1..MaxClock

\* The lines and the shell command runAppleScript(s) computes for s.
Prepared(s) ==
  LET ls == ScriptLines(s)
  IN [script |-> s, lines |-> ls,
      command |-> IF IsEmptyScript(ls) THEN << >> ELSE BuildCommandString(ls)]

\* runAppleScript(p.script) run to its return, execSync doing what outcome says.
\* (The callers bind p and the result with \E over a one-element set, so that
\* each is computed once for a call.)
RunScript(p, outcome) ==
  /\ script' = p.script
  /\ lines' = p.lines
  /\ command' = p.command
  /\ execCalls' = IF IsEmptyScript(p.lines) THEN 0 ELSE 1
  /\ execOutcome' = IF IsEmptyScript(p.lines) THEN NoOutcome ELSE outcome
  /\ result' = ResultOf(p.lines, outcome)
  /\ runPc' = "returned"

MgrInit ==
  /\ accountName = None
  /\ probes = 0
  /\ call = NoCall
  /\ returned = NoReturn
  /\ matched = << >>
  /\ mgrPc = "new"
  /\ tool = "none"
  /\ response = NoResponse
  /\ NoFormat
  /\ NoScan
  /\ NoEsc
  /\ NoRun

\* new AppleNotesManager(): the test script is run once and decides the account.
Construct ==
  /\ mgrPc = "new"
  /\ \E p \in { Prepared(testScript) }, outcome \in MgrOutcomes :
       /\ RunScript(p, outcome)
       /\ accountName' = detectAvailableAccount(ResultOf(p.lines, outcome))
  /\ probes' = probes + 1
  /\ mgrPc' = "ready"
  /\ UNCHANGED << call, returned, matched, tool, response >>
  /\ UNCHANGED << fmtVars, scanVars, escVars >>

\* createNote(title, content, tags) for a title and a content of the given sets.
CreateNoteOp(titles, contents) ==
  /\ mgrPc = "ready"
  /\ \E title \in titles, body \in contents :
       \E p \in { Prepared(buildScript(accountName, MakeNoteCommand(title, body))) } :
         \E tags \in MgrTags, outcome \in MgrOutcomes :
           \E res \in { ResultOf(p.lines, outcome) } :
             /\ RunScript(p, outcome)
             /\ call' = CreateNoteCall(title, body, tags)
             /\ matched' = << >>
             /\ IF res.success
                THEN \E id \in NoteIds, created \in Times, modified \in Times :
                       /\ created <= modified
                       /\ returned' = CreateNoteReturn(res,
                                        Note(id, title, body, tags, created, modified))
                ELSE returned' = CreateNoteReturn(res, Note(1, title, body, tags, 1, 1))
  /\ UNCHANGED << accountName, probes, mgrPc >>
  /\ UNCHANGED << fmtVars, scanVars, escVars >>

\* createNote called on the manager.
CreateNote == CreateNoteOp(MgrTitles, MgrContents) /\ UNCHANGED << tool, response >>

\* searchNotes(query) for a query of the given set.
SearchNotesOp(queries) ==
  /\ mgrPc = "ready"
  /\ \E query \in queries :
       \E p \in { Prepared(buildScript(accountName, SearchCommand(query))) } :
         \E names \in NameLists : \E outcome \in SearchOutcomes(names) :
           \E res \in { ResultOf(p.lines, outcome) } :
             \E n \in { IF res.success THEN Len(NamesOf(res.output)) ELSE 0 } :
               /\ RunScript(p, outcome)
               /\ call' = SearchNotesCall(query)
               /\ matched' = IF outcome.threw THEN << >> ELSE names
               /\ \E ids \in [1..n -> NoteIds], created \in Times, modified \in Times :
                    /\ created <= modified
                    /\ returned' = SearchNotesReturn(res, ids, created, modified)
  /\ UNCHANGED << accountName, probes, mgrPc >>
  /\ UNCHANGED << fmtVars, scanVars, escVars >>

\* searchNotes called on the manager.
SearchNotes == SearchNotesOp(MgrTitles) /\ UNCHANGED << tool, response >>

\* getNoteContent(title) for a title of the given set.
GetNoteContentOp(titles) ==
  /\ mgrPc = "ready"
  /\ \E title \in titles :
       \E p \in { Prepared(buildScript(accountName, GetBodyCommand(title))) } :
         \E outcome \in MgrOutcomes :
           /\ RunScript(p, outcome)
           /\ call' = GetNoteContentCall(title)
           /\ matched' = << >>
           /\ returned' = GetNoteContentReturn(ResultOf(p.lines, outcome))
  /\ UNCHANGED << accountName, probes, mgrPc >>
  /\ UNCHANGED << fmtVars, scanVars, escVars >>

\* getNoteContent called on the manager.
GetNoteContent == GetNoteContentOp(MgrTitles) /\ UNCHANGED << tool, response >>

MgrNext == Construct \/ CreateNote \/ SearchNotes \/ GetNoteContent

MgrSpec == MgrInit /\ [][MgrNext]_vars

----------------------------------------------------------------------------
(* The tools as a state machine *)

\* z.string().min(1): the arguments a handler is called with are not empty.
NonEmpty(strings) == { s \in strings : Len(s) >= 1 }

\* create-note
CreateNoteTool ==
  /\ CreateNoteOp(NonEmpty(MgrTitles), NonEmpty(MgrContents))
  /\ tool' = "create-note"
  /\ response' = CreateNoteResponse(returned')

\* search-notes
SearchNotesTool ==
  /\ SearchNotesOp(NonEmpty(MgrTitles))
  /\ tool' = "search-notes"
  /\ response' = SearchNotesResponse(returned')

\* get-note-content
GetNoteContentTool ==
  /\ GetNoteContentOp(NonEmpty(MgrTitles))
  /\ tool' = "get-note-content"
  /\ response' = GetNoteContentResponse(returned')

ToolNext == Construct \/ CreateNoteTool \/ SearchNotesTool \/ GetNoteContentTool

ToolSpec == MgrInit /\ [][ToolNext]_vars

----------------------------------------------------------------------------
(* Vocabulary of the properties *)

\* Number of occurrences of the literal p in s.
Count(p, s) == Cardinality({ i \in 0..(Len(s) - 1) : At(s, i, p) })

\* Number of occurrences of p in s that start before position n, ignoring case.
CountBefore(p, s, n) == Cardinality({ i \in 0..(n - 1) : AtCI(s, i, p) })

Occurs(p, s) == \E i \in 0..(Len(s) - 1) : At(s, i, p)

\* Number of consecutive backslashes that end just before 1-based position i.
BackslashRun(s, i) ==
  LET others == { k \in 1..(i - 1) : s[k] # BS }
  IN IF others = {} THEN i - 1
     ELSE (i - 1) - (CHOOSE k \in others : \A j \in others : j <= k)

\* Every double quote is preceded by an odd number of backslashes: none ends the literal.
NoUnescapedQuote(s) ==
  \A i \in 1..Len(s) : s[i] = DQ => BackslashRun(s, i) % 2 = 1

\* Every closing tag close has its opening tag open before it, and none stays open.
TagsMatch(s, open, close) ==
  /\ \A i \in 0..(Len(s) - 1) :
       AtCI(s, i, close) => CountBefore(open, s, i) > CountBefore(close, s, i)
  /\ CountBefore(open, s, Len(s)) = CountBefore(close, s, Len(s))

\* The list and item tags of s are balanced.
ListTagsBalanced(s) ==
  /\ TagsMatch(s, LI_OPEN, LI_CLOSE)
  /\ TagsMatch(s, OL_OPEN, OL_CLOSE)
  /\ TagsMatch(s, UL_OPEN, UL_CLOSE)

\* The blocks the flattener writes are closed.
BlocksClosed(s) ==
  /\ Count(DIV_OPEN, s) = Count(DIV_CLOSE, s)
  /\ Count(B_OPEN, s) = Count(B_CLOSE, s)
  /\ Count(FONT_OPEN, s) = Count(FONT_CLOSE, s)

Formatted == pc \in { "formatted", "reformatted" }

----------------------------------------------------------------------------
(* Properties of the formatting pipeline *)

\* C1: the payload formatNoteContent returns holds no unescaped double quote:
\* every '"' in it follows an odd number of consecutive backslashes, on the plain
\* path, the markup path and the flattening path with its font colour attribute.
C1_PayloadHasNoUnescapedQuote == Formatted => NoUnescapedQuote(formatted)

\* C1 witness: a flattened list whose text held a double quote, next to the
\* quotes of the font colour attribute.
C1_Witness ==
  /\ pc = "formatted"
  /\ Occurs(<< DQ >>, content)
  /\ Occurs(FONT_OPEN, formatted)
  /\ Occurs(LDQUO_ENT, formatted)

\* C2: every backslash and double quote of the input is escaped once and no more:
\* the payload holds at most two backslashes per input backslash, one per input
\* quote, and the two of each font colour attribute the flattener writes.
C2_EscapedExactlyOnce ==
  Formatted =>
    Count(<< BS >>, formatted)
      <= 2 * Count(<< BS >>, content) + Count(<< DQ >>, content)
           + 2 * Count(FONT_OPEN, formatted)

\* C3: flattening leaves no dangling element: when the list and item tags of the
\* input are balanced, so are those of the payload, and every <div>, <b> and
\* <font> the flattener wrote is closed.
C3_NoDanglingElement ==
  (Formatted /\ ListTagsBalanced(content)) =>
    (ListTagsBalanced(formatted) /\ BlocksClosed(formatted))

\* An ordered list whose first item is plain and whose second item holds, after the
\* text main, an unordered list of the two sub-items subs, followed by the text tl.
SecondItemNested(main, subs, tl, sep) ==
  Element("ol", Item(<< "A" >>) \o Item(main \o ListOf("ul", subs, sep) \o tl))

\* Positions at which the literal p occurs in s.
Positions(p, s) == { i \in 0..(Len(s) - 1) : At(s, i, p) }

NumberedPrefix(n) == DIV_OPEN \o B_OPEN \o FONT_OPEN \o NumStr(n) \o << ".", " " >>
BulletPrefix == DIV_OPEN \o NBSP \o NBSP \o NBSP \o NBSP \o << BULLET, " " >>
Spacer == DIV_OPEN \o BR \o DIV_CLOSE
IsLetter(ch) == ch \in { "A", "B", "x", "y", "t" }

\* out is what the flattener must make of SecondItemNested(main, subs, tl, sep).
FlattenedSecondItem(out, main, subs) ==
  LET numbered == Positions(NumberedPrefix(2), out)
      bullets == Positions(BulletPrefix, out)
      spacers == Positions(Spacer, out)
  IN /\ Cardinality(numbered) = 1
     /\ Count(FONT_OPEN, out) = 1
     /\ Count(FONT_CLOSE \o B_CLOSE \o DIV_CLOSE, out) = 1
     /\ Cardinality(bullets) = 2
     /\ Cardinality(spacers) = 1
     /\ \A n \in numbered, b \in bullets, s \in spacers : n < b /\ b < s
     /\ \A n \in numbered :
          (\A k \in 1..Len(main) : IsLetter(main[k])) =>
            At(out, n + Len(NumberedPrefix(2)), main \o FONT_CLOSE \o B_CLOSE \o DIV_CLOSE)
     /\ \A k \in 1..2 :
          IsLetter(subs[k][1]) =>
            \E b \in bullets :
              /\ Cardinality({ c \in bullets : c < b }) = k - 1
              /\ At(out, b + Len(BulletPrefix), << subs[k][1] >>)
     /\ \A s \in spacers : out = Substring(out, 0, s) \o Spacer \o HTML_CLOSE
     /\ ~ \E i \in 0..(Len(out) - 1) : ListOpenAt(out, i) \/ AtCI(out, i, LI_OPEN)

\* C5: for an ordered list whose second item holds a nested unordered list of two
\* sub-items, the flattened output has exactly one numbered block for that item
\* (numbered 2, bold, coloured, with the item's leading text), then exactly two
\* indented bullet blocks in the order of the sub-items, then exactly one spacer
\* block, and no opening tag of a list.
C5_SecondItemFlattened ==
  Formatted =>
    \A main \in LeadTexts, subs \in [1..2 -> SubTexts], tl \in TailTexts,
       sep \in { << >>, << NL >> } :
      content = SecondItemNested(main, subs, tl, sep) =>
        FlattenedSecondItem(formatted, main, subs)

\* C5 witness: '<ol><li>A</li><li>B<ul><li>x</li><li>y\</li></ul></li></ol>' was
\* formatted and its payload holds the numbered block and two bullet blocks.
C5_Witness ==
  /\ pc = "formatted"
  /\ content = SecondItemNested(<< "B" >>, << << "x" >>, << "y", BS >> >>, << >>, << >>)
  /\ Occurs(NumberedPrefix(2) \o << "B" >>, formatted)
  /\ Count(BulletPrefix, formatted) = 2

\* The markup formatNoteContent hands to hasNestedLists.
Markup == CleanListWhitespace(EscapeForLiteral(content))

\* Position of the '</li>' that closes the item opened at a: the first one at which
\* as many items have closed as have opened since a, or -1.
MatchingClose(s, a) ==
  LET opened(c) == Cardinality({ i \in a..c : AtCI(s, i, LI_OPEN) })
      closed(c) == Cardinality({ i \in a..c : AtCI(s, i, LI_CLOSE) })
      ends == { c \in a..(Len(s) - 1) : AtCI(s, c, LI_CLOSE) /\ opened(c) = closed(c) }
  IN IF ends = {} THEN -1 ELSE Min(ends)

\* An opening tag of a <ul> or <ol> starts at j.
OpensList(s, j) ==
  /\ AtCI(s, j, << "<", "u", "l" >>) \/ AtCI(s, j, << "<", "o", "l" >>)
  /\ j + 3 < Len(s)
  /\ (s[j + 4] = GT \/ IsSpace(s[j + 4]))

\* Some list item of s holds, between its opening tag and its matching closing
\* tag, the opening tag of a list.
RealNesting(s) ==
  \E a \in 0..(Len(s) - 1) :
    /\ AtCI(s, a, LI_OPEN)
    /\ MatchingClose(s, a) # -1
    /\ \E j \in (a + 1)..(MatchingClose(s, a) - 1) : OpensList(s, j)

\* C6: whenever some list item of the markup holds a list, whatever the kind of the
\* outer list, the payload of formatNoteContent has no real nesting left: none of
\* its list items holds the opening tag of a list.
C6_NoNestingLeft ==
  (pc = "formatted" /\ ListTagsBalanced(content) /\ RealNesting(Markup)) =>
    ~RealNesting(formatted)

\* C7: hasNestedLists answers true exactly when some list item of the markup
\* holds the opening tag of a list inside its own body; a list that opens after
\* the item has closed, as in two sibling lists, is not nesting.
C7_DetectsExactlyRealNesting ==
  (pc = "formatted" /\ ListTagsBalanced(content)) => (detected <=> RealNesting(Markup))

\* Single-level lists of two items.
TwoItemLists ==
  { ListOf(k, items, sep) : k \in ListKinds, items \in [1..2 -> Texts], sep \in Separators }

\* C8: for a single-level list of two items hasNestedLists answers false, the
\* payload has as many '<li' and '</li>' as the input, namely two of each, the
\* list keeps its tags and nothing is rewritten into <div> blocks.
C8_SimpleListKept ==
  (Formatted /\ content \in TwoItemLists) =>
    /\ ~detected
    /\ Count(LI_OPEN, formatted) = Count(LI_OPEN, content)
    /\ Count(LI_CLOSE, formatted) = Count(LI_CLOSE, content)
    /\ Count(LI, formatted) = 2
    /\ Count(LI_CLOSE, formatted) = 2
    /\ \E k \in ListKinds :
         /\ Count(OpenTag(k), formatted) = 1
         /\ Count(CloseTag(k), formatted) = 1
         /\ Count(OpenTag(k), content) = 1
    /\ ~Occurs(<< "<", "d", "i", "v" >>, formatted)

\* C8 witness: '<ol><li>A</li>\n<li>x\ny</li>\n</ol>', with its line breaks
\* between the tags, was formatted.
C8_Witness ==
  /\ pc = "formatted"
  /\ content = ListOf("ol", << << "A" >>, << "x", NL, "y" >> >>, << NL >>)
  /\ Count(LI, formatted) = 2
  /\ ~detected

NumberedOpen == DIV_OPEN \o B_OPEN \o FONT_OPEN

\* C9: formatting a payload again changes none of its line-break elements and none
\* of its flattened list blocks: the second payload has the same <br> elements,
\* numbered blocks, bullet blocks and spacer blocks as the first.
C9_SecondFormatKeepsBlocks ==
  pc = "reformatted" =>
    /\ Count(BR, reformatted) = Count(BR, formatted)
    /\ Count(NumberedOpen, reformatted) = Count(NumberedOpen, formatted)
    /\ Count(BulletPrefix, reformatted) = Count(BulletPrefix, formatted)
    /\ Count(Spacer, reformatted) = Count(Spacer, formatted)

\* s holds a markup tag: a '<', at least one character other than '>', then a '>'.
HasTag(s) ==
  \E i \in 1..(Len(s) - 2) :
    /\ s[i] = LT
    /\ s[i + 1] # GT
    /\ \E j \in (i + 2)..Len(s) : s[j] = GT

\* The literal-escaped text with its newlines as <br>, character by character.
RECURSIVE EscapedLines(_)
EscapedLines(s) ==
  IF s = << >> THEN << >>
  ELSE (CASE Head(s) = BS -> << BS, BS >>
          [] Head(s) = DQ -> << BS, DQ >>
          [] Head(s) = NL -> << "<", "b", "r", ">" >>
          [] OTHER -> << Head(s) >>) \o EscapedLines(Tail(s))

\* C10: for non-empty content without a markup tag the payload is the envelope
\* around the literal-escaped text with every newline replaced by <br>: it holds
\* no newline and as many <br> as the content had newlines, and 'line1\nline2'
\* gives '<html><body>line1<br>line2</body></html>'.
C10_PlainTextLineBreaks ==
  (Formatted /\ content # << >> /\ ~HasTag(content)) =>
    /\ formatted = HTML_OPEN \o EscapedLines(content) \o HTML_CLOSE
    /\ ~Occurs(<< NL >>, formatted)
    /\ Count(BR, formatted) = Count(<< NL >>, content)
    /\ content = TwoLines =>
         formatted = HTML_OPEN
                       \o << "l", "i", "n", "e", "1", "<", "b", "r", ">",
                             "l", "i", "n", "e", "2" >>
                       \o HTML_CLOSE

\* C10 witness: 'line1\nline2' was formatted and its payload holds one <br>.
C10_Witness ==
  /\ pc = "formatted"
  /\ content = TwoLines
  /\ ~HasTag(content)
  /\ Count(BR, formatted) = 1

\* s starts with the literal p / ends with the literal p.
StartsWith(s, p) == Len(p) <= Len(s) /\ SubSeq(s, 1, Len(p)) = p
EndsWith(s, p) == Len(p) <= Len(s) /\ SubSeq(s, Len(s) - Len(p) + 1, Len(s)) = p

\* C11: formatNoteContent returns the empty string exactly when its content is
\* empty; for any other content, plain, well-formed or tag soup, it returns a
\* string that starts with <html><body> and ends with </body></html>.
C11_EmptyOrEnveloped ==
  Formatted =>
    /\ (formatted = << >>) <=> (content = << >>)
    /\ content # << >> =>
         /\ StartsWith(formatted, HTML_OPEN)
         /\ EndsWith(formatted, HTML_CLOSE)
         /\ Len(formatted) >= Len(HTML_OPEN) + Len(HTML_CLOSE)
    /\ (pc = "reformatted" /\ content # << >>) =>
         /\ StartsWith(reformatted, HTML_OPEN \o HTML_OPEN)
         /\ EndsWith(reformatted, HTML_CLOSE \o HTML_CLOSE)

\* C11 witness: the unbalanced content '</ol><li>' was formatted into an enveloped
\* payload, and so was the payload itself.
C11_Witness ==
  /\ pc = "reformatted"
  /\ content = OL_CLOSE \o LI
  /\ formatted = HTML_OPEN \o OL_CLOSE \o LI \o HTML_CLOSE
  /\ StartsWith(reformatted, HTML_OPEN)

----------------------------------------------------------------------------
(* Properties of the depth-counter scan *)

\* End (exclusive) of the item that opens at a: just after the first '</li>' at
\* which as many items have closed as have opened since a, or -1 if there is none.
ItemEnd(s, a) ==
  LET opened(c) == Cardinality({ i \in a..c : At(s, i, LI_OPEN) })
      closed(c) == Cardinality({ i \in a..c : At(s, i, LI_CLOSE) })
      ends == { c \in a..(Len(s) - 1) : At(s, c, LI_CLOSE) /\ opened(c) = closed(c) }
  IN IF ends = {} THEN -1 ELSE Min(ends) + 5

\* The items of the well-formed prefix from position from on: each opens at the
\* first '<li' after the one before it, and the first unmatched one ends the list.
RECURSIVE PrefixItems(_, _)
PrefixItems(s, from) ==
  LET a == IndexOf(s, LI_OPEN, from)
  IN IF a = -1 \/ ItemEnd(s, a) = -1 THEN << >>
     ELSE << Substring(s, a, ItemEnd(s, a)) >> \o PrefixItems(s, ItemEnd(s, a))

RECURSIVE BlocksOf(_, _)
BlocksOf(items, n) ==
  IF items = << >> THEN << >>
  ELSE ItemBlocks(Head(items), n) \o BlocksOf(Tail(items), n + 1)

\* An iteration of the depth scan that stays in the loop moves searchPos forward
\* or finds the end of the item beyond it; an iteration of the item loop moves
\* currentPos forward. Neither position ever leaves the content.
ScanAdvances ==
  /\ (scanPc = "inner" /\ scanPc' = "inner") =>
       (searchPos' > searchPos \/ (liEnd = -1 /\ liEnd' > searchPos))
  /\ (scanPc = "after" /\ scanPc' = "outer") => currentPos' > currentPos
  /\ currentPos' <= Len(scanContent)
  /\ liEnd' <= Len(scanContent)

\* When the scan is over exactly the items of the well-formed prefix were numbered
\* and turned into blocks, and an unmatched item left the rest of the list unread.
PrefixConverted ==
  scanPc = "done" =>
    /\ mainItemCounter = Len(PrefixItems(scanContent, 0))
    /\ converted = BlocksOf(PrefixItems(scanContent, 0), 1)

\* C4: convertNestedListsToDivs terminates on every list content: both loops move
\* their position forward on every iteration that stays in the loop, an opening
\* item tag without its closing tag stops the scan, and only the items of the
\* well-formed prefix are turned into blocks.
C4_ScanTerminatesOnPrefix ==
  /\ <>(scanPc = "done")
  /\ [][ScanAdvances]_vars
  /\ []PrefixConverted

\* C4 witness: the scan is over, it converted at least one item and then met an
\* opening item tag that no closing tag matches.
C4_Witness ==
  /\ scanPc = "done"
  /\ mainItemCounter >= 1
  /\ liEnd = -1
  /\ currentPos = Len(scanContent)
  /\ liStart >= 0
  /\ ItemEnd(scanContent, liStart) = -1

----------------------------------------------------------------------------
(* Properties of the item numbering *)

\* How the block of the n-th item starts when the item holds no nested list.
SimplePrefix(n) == DIV_OPEN \o B_OPEN \o NumStr(n) \o << ".", " " >>

\* The item text holds the opening tag of a list.
HoldsList(item) == \E j \in 0..(Len(item) - 1) : OpensList(item, j)

\* 0-based positions in s of the block numbered n, in either of its two forms.
NumberedAt(s, n) == Positions(NumberedPrefix(n), s) \cup Positions(SimplePrefix(n), s)

\* Each of the items was given its number: item k has exactly one block numbered
\* k, with the coloured heading exactly when the item holds a list, the blocks
\* stand in the order of the items, and no further number was given.
NumberedInOrder(items, out) ==
  /\ \A k \in 1..Len(items) :
       /\ Cardinality(NumberedAt(out, k)) = 1
       /\ HoldsList(items[k]) <=> Positions(NumberedPrefix(k), out) # {}
  /\ \A k \in 1..(Len(items) - 1) :
       \A a \in NumberedAt(out, k), b \in NumberedAt(out, k + 1) : a < b
  /\ NumberedAt(out, Len(items) + 1) = {}

\* A step that numbers an item: the item runs from its opening tag to the closing
\* tag that the depth count pairs with it, it starts where the item before it
\* ended or later, and the counter goes up by one.  No other step moves the
\* counter.
NumbersOneTopLevelItem ==
  IF scanPc = "after" /\ liEnd # -1
  THEN /\ liEnd = ItemEnd(scanContent, liStart)
       /\ liStart >= currentPos
       /\ mainItemCounter' = mainItemCounter + 1
       /\ Positions(NumberedPrefix(mainItemCounter'), converted')
            \cup Positions(SimplePrefix(mainItemCounter'), converted')
          = { Len(converted) }
  ELSE scanPc # "call" => mainItemCounter' = mainItemCounter

----------------------------------------------------------------------------

(* Properties of the frame of the flattening *)

\* An ordered list opens inside the list l.
HoldsOrderedList(l) == \E i \in 1..(Len(l) - 1) : AtCI(l, i, OL_OPEN)

\* What the list l becomes when it is flattened with nothing around it.
FlattenedAlone(l) == convertNestedListsToDivs(l)

\* The list l was kept when it holds no nested list; otherwise the numbered
\* blocks that replace it, if any, start with the one block numbered 1.
KeptOrNumberedFromOne(l) ==
  IF ~RealNesting(l) THEN FlattenedAlone(l) = l
  ELSE \/ Positions(DIV_OPEN \o B_OPEN, FlattenedAlone(l)) = {}
       \/ /\ 0 \in NumberedAt(FlattenedAlone(l), 1)
          /\ Cardinality(NumberedAt(FlattenedAlone(l), 1)) = 1

\* The output is the input with each of its two lists replaced by what the list
\* becomes alone, the texts around them in place.
FrameKept ==
  flattened = pieces[1] \o FlattenedAlone(pieces[2]) \o pieces[3]
                \o FlattenedAlone(pieces[4]) \o pieces[5]

\* C28: every top-level ordered list is rewritten on its own, left to right:
\* the text outside the ordered lists is returned unchanged and in place, an
\* ordered list without a nested list is returned character for character, and
\* the blocks of every rewritten list are numbered from 1 again.
C28_EachOrderedListRewrittenAlone ==
  flatPc = "done" =>
    /\ FrameKept
    /\ \A k \in { 2, 4 } : pieces[k] # << >> => KeptOrNumberedFromOne(pieces[k])

\* Two ordered lists with nested lists, text before, between and after them,
\* were both rewritten, each from number 1.
C28_Witness ==
  /\ flatPc = "done"
  /\ pieces[1] # << >> /\ pieces[3] # << >> /\ pieces[5] # << >>
  /\ RealNesting(pieces[2]) /\ ~HoldsOrderedList(pieces[2])
  /\ pieces[4] # << >> /\ RealNesting(pieces[4]) /\ ~HoldsOrderedList(pieces[4])
  /\ Cardinality(NumberedAt(flattened, 1)) = 2
  /\ Cardinality(NumberedAt(flattened, 2)) = 1
  /\ flattened # flatInput

\* A list without a nested list stands after a rewritten one and was kept.
C28_WitnessKept ==
  /\ flatPc = "done"
  /\ RealNesting(pieces[2])
  /\ pieces[4] # << >> /\ ~RealNesting(pieces[4])
  /\ Occurs(pieces[4], flattened)
  /\ Cardinality(NumberedAt(flattened, 1)) = 1

----------------------------------------------------------------------------
(* Properties of the text kept by the flattening *)

\* The character at 0-based position i of s stands inside a tag: the nearest
\* delimiter at or before it is a '<'.
WithinTag(s, i) ==
  LET delims == { k \in 0..i : s[k + 1] \in { LT, GT } }
  IN delims # {} /\ (s[i + 1] = GT \/ s[(CHOOSE k \in delims : \A j \in delims : j <= k) + 1] = LT)

\* The letters of s that stand outside tags.
ItemLetters == { "A", "B", "x", "y", "t" }
TextLetters(s) ==
  { s[i + 1] : i \in { k \in 0..(Len(s) - 1) : s[k + 1] \in ItemLetters /\ ~WithinTag(s, k) } }

\* C29: for every ordered list that is rewritten, the text of every top-level
\* item and of every nested item appears in the flat output, also text after the
\* nested list, a second nested list and the items of a nested ordered list.
C29_NoTextDropped ==
  flatPc = "done" =>
    \A k \in { 2, 4 } :
      RealNesting(pieces[k]) =>
        /\ TextLetters(pieces[k]) \subseteq TextLetters(FlattenedAlone(pieces[k]))
        /\ TextLetters(flatInput) \subseteq TextLetters(flattened)

\* What is kept: the text before the first nested list of every item and the
\* items of that nested list, when the list holds no ordered list and nothing
\* follows the first nested list inside the item.
NothingAfterNestedList(l) ==
  /\ ~HoldsOrderedList(l)
  /\ Count(UL_OPEN, l) = 1
  /\ Occurs(UL_CLOSE \o LI_CLOSE, l)

C29_LeadingTextAndFirstListKept ==
  flatPc = "done" =>
    \A k \in { 2, 4 } :
      (RealNesting(pieces[k]) /\ NothingAfterNestedList(pieces[k])) =>
        TextLetters(pieces[k]) \subseteq TextLetters(FlattenedAlone(pieces[k]))

----------------------------------------------------------------------------

(* Properties of the escapers *)

\* C12: escapeAppleScriptString(str) holds no unescaped double quote: every '"'
\* of the result follows an odd number of consecutive backslashes, whatever
\* backslashes, quotes and carriage returns str holds.
C12_LiteralHasNoUnescapedQuote ==
  escPc = "escapeAppleScriptString" =>
    /\ NoUnescapedQuote(escapedLiteral)
    /\ Count(<< DQ >>, escapedLiteral) = Count(<< DQ >>, str)

\* C12 witness: a backslash, a carriage return and a quote in a row were escaped:
\* the quote is left behind three backslashes.
C12_Witness ==
  /\ escPc = "escapeAppleScriptString"
  /\ str = << BS, CR, DQ >>
  /\ escapedLiteral = << BS, BS, BS, DQ >>

\* C13: a string without a backslash and without a double quote, the characters
\* the escaper is defined to escape, comes back unchanged.
C13_NothingElseChanged ==
  (escPc = "escapeAppleScriptString" /\ ~Occurs(<< BS >>, str) /\ ~Occurs(<< DQ >>, str)) =>
    escapedLiteral = str

\* What the escaper for markup inside a script literal makes of one character.
ScriptHtmlChar(c) ==
  CASE c = BS -> << BS, BS >>
    [] c = "&" -> << "&", "a", "m", "p", ";" >>
    [] c = LT -> << "&", "l", "t", ";" >>
    [] c = GT -> << "&", "g", "t", ";" >>
    [] c = DQ -> << "&", "#", "8", "2", "2", "0", ";" >>
    [] c = "'" -> << "&", "#", "3", "9", ";" >>
    [] OTHER -> << c >>

\* What the escaper for markup makes of one character.
HtmlChar(c) ==
  CASE c = "&" -> << "&", "a", "m", "p", ";" >>
    [] c = LT -> << "&", "l", "t", ";" >>
    [] c = GT -> << "&", "g", "t", ";" >>
    [] c = DQ -> << "&", "q", "u", "o", "t", ";" >>
    [] c = "'" -> << "&", "#", "3", "9", ";" >>
    [] OTHER -> << c >>

\* Number of characters of s that markup or a quoted attribute gives a meaning.
MarkupChars(s) ==
  Cardinality({ i \in 1..Len(s) : s[i] \in { "&", LT, GT, DQ, "'" } })

NoRawMarkup(s) == \A i \in 1..Len(s) : s[i] \notin { LT, GT, DQ, "'" }

\* C14: sanitizeForAppleScriptHTML rewrites backslash, &, <, >, " and ' in this
\* order, the double quote as &#8220; and never as &quot;, the apostrophe as
\* &#39;: the result is the character-by-character image of str, holds no raw
\* <, >, " or ', holds &amp; once per '&' of str and no other '&' than those of
\* the entities it wrote, and is empty for the empty string.
C14_ScriptHtmlEscapedOnce ==
  escPc = "sanitizeForAppleScriptHTML" =>
    /\ scriptHtmlSafe = Concat([i \in 1..Len(str) |-> ScriptHtmlChar(str[i])])
    /\ NoRawMarkup(scriptHtmlSafe)
    /\ Count(AMP_ENT, scriptHtmlSafe) = Count(<< "&" >>, str)
    /\ Count(<< "&" >>, scriptHtmlSafe) = MarkupChars(str)
    /\ Count(LDQUO_ENT, scriptHtmlSafe) = Count(<< DQ >>, str)
    /\ ~Occurs(QUOT_ENT, scriptHtmlSafe)
    /\ Count(<< BS >>, scriptHtmlSafe) = 2 * Count(<< BS >>, str)
    /\ str = << >> => scriptHtmlSafe = << >>

\* C14 witness: a backslash, an ampersand, a quote and an apostrophe were escaped.
C14_Witness ==
  /\ escPc = "sanitizeForAppleScriptHTML"
  /\ str = << BS, "&", DQ, "'" >>
  /\ Occurs(LDQUO_ENT \o APOS_ENT, scriptHtmlSafe)

\* The entity that starts at 0-based position i of s, as [char, len], len = 0 if none.
EntityAt(s, i) ==
  IF At(s, i, AMP_ENT) THEN [char |-> "&", len |-> 5]
  ELSE IF At(s, i, LT_ENT) THEN [char |-> LT, len |-> 4]
  ELSE IF At(s, i, GT_ENT) THEN [char |-> GT, len |-> 4]
  ELSE IF At(s, i, QUOT_ENT) THEN [char |-> DQ, len |-> 6]
  ELSE IF At(s, i, APOS_ENT) THEN [char |-> "'", len |-> 5]
  ELSE [char |-> s[i + 1], len |-> 1]

\* s with its entities decoded, in one pass from position i on.
RECURSIVE DecodeEntities(_, _)
DecodeEntities(s, i) ==
  IF i >= Len(s) THEN << >>
  ELSE << EntityAt(s, i).char >> \o DecodeEntities(s, i + EntityAt(s, i).len)

\* C15: sanitizeForHTML rewrites &, <, >, " and ' as their entities, the ampersand
\* first: the result is the character-by-character image of str, so no entity is
\* encoded twice, it holds no raw <, >, " or ', and decoding its entities gives
\* str back.
C15_HtmlEscapedOnce ==
  escPc = "sanitizeForHTML" =>
    /\ htmlSafe = Concat([i \in 1..Len(str) |-> HtmlChar(str[i])])
    /\ NoRawMarkup(htmlSafe)
    /\ Count(<< "&" >>, htmlSafe) = MarkupChars(str)
    /\ Count(AMP_ENT, htmlSafe) = Count(<< "&" >>, str)
    /\ Count(AMP_ENT \o << "l", "t", ";" >>, htmlSafe) = Count(LT_ENT, str)
    /\ DecodeEntities(htmlSafe, 0) = str

\* C15 witness: '&lt;<' was escaped into '&amp;lt;&lt;', which decodes to '&lt;<'.
C15_Witness ==
  /\ escPc = "sanitizeForHTML"
  /\ str = LT_ENT \o << LT >>
  /\ htmlSafe = AMP_ENT \o << "l", "t", ";" >> \o LT_ENT

----------------------------------------------------------------------------
(* Properties of runAppleScript *)

IsBlank(c) == c \in { " ", "\t", "\r", "\n" }

\* The positions that bound the lines of s: before its first character, at each
\* newline, and after its last character.
LineBounds(s) == { -1 } \cup { i \in 0..(Len(s) - 1) : s[i + 1] = NL } \cup { Len(s) }

\* The 0-based positions of line a (the line after bound a) that hold text.
TextOfLine(s, a) ==
  { i \in (a + 1)..(Min({ b \in LineBounds(s) : b > a }) - 1) : ~IsBlank(s[i + 1]) }

\* The bounds after which a line with text starts.
TextLines(s) == { a \in LineBounds(s) \ { Len(s) } : TextOfLine(s, a) # {} }

\* The k-th line of s that holds text, without the white space around it.
TextLine(s, k) ==
  LET a == CHOOSE x \in TextLines(s) : Cardinality({ y \in TextLines(s) : y < x }) = k - 1
      first == Min(TextOfLine(s, a))
      last == CHOOSE x \in TextOfLine(s, a) : \A y \in TextOfLine(s, a) : y <= x
  IN SubSeq(s, first + 1, last + 1)

\* Characters a POSIX shell gives a meaning when they stand outside quotes.
ShellMeta ==
  { "$", DQ, ";", "&", "|", "<", ">", "(", ")", "*", "?", "[", "]", "{", "}",
    "#", "~", "!", "=", "%", NL }

\* The words a POSIX shell splits cmd into, from 1-based position i on: words are
\* the finished words, cur the word being read (inWord tells whether there is
\* one).  ok is FALSE when a quote is left open or a character is interpreted.
RECURSIVE ShellParse(_, _, _, _, _)
ShellParse(cmd, i, words, cur, inWord) ==
  IF i > Len(cmd)
  THEN [words |-> IF inWord THEN Append(words, cur) ELSE words, ok |-> TRUE]
  ELSE IF cmd[i] \in { " ", "\t" }
  THEN ShellParse(cmd, i + 1, IF inWord THEN Append(words, cur) ELSE words, << >>, FALSE)
  ELSE IF cmd[i] = "'"
  THEN LET closing == { j \in (i + 1)..Len(cmd) : cmd[j] = "'" }
       IN IF closing = {} THEN [words |-> words, ok |-> FALSE]
          ELSE ShellParse(cmd, Min(closing) + 1, words,
                          cur \o SubSeq(cmd, i + 1, Min(closing) - 1), TRUE)
  ELSE IF cmd[i] = BS
  THEN IF i = Len(cmd) THEN [words |-> words, ok |-> FALSE]
       ELSE ShellParse(cmd, i + 2, words, Append(cur, cmd[i + 1]), TRUE)
  ELSE IF cmd[i] \in ShellMeta
  THEN [words |-> words, ok |-> FALSE]
  ELSE ShellParse(cmd, i + 1, words, Append(cur, cmd[i]), TRUE)

ShellWords(cmd) == ShellParse(cmd, 1, << >>, << >>, FALSE)

\* A command was built for the script.
CommandBuilt == runPc = "built" \/ (runPc = "returned" /\ execCalls > 0)

\* C16: the command has one -e argument per line of the script that holds text:
\* after the word osascript come as many pairs of -e and an argument as the script
\* has non-blank lines, the arguments being the trimmed lines in the order of
\* the script; a blank line gives no argument.
C16_OneArgumentPerLine ==
  CommandBuilt =>
    LET n == Cardinality(TextLines(script))
        w == ShellWords(command).words
    IN /\ n >= 1
       /\ Len(lines) = n
       /\ Len(w) = 1 + 2 * n
       /\ w[1] = OSASCRIPT
       /\ \A k \in 1..n : w[2 * k] = << "-", "e" >> /\ w[2 * k + 1] = TextLine(script, k)

\* C16 witness: the command of the multi-line test script, three lines with text
\* between blank ones, was built.
C16_Witness ==
  /\ runPc = "built"
  /\ script = MultiLineScript
  /\ Len(lines) = 3
  /\ Count(<< "-", "e", " ", "'" >>, command) = 3

\* line between single quotes, each of its own single quotes written '\''.
RECURSIVE ShellQuoted(_)
ShellQuoted(line) ==
  IF line = << >> THEN << >>
  ELSE (IF Head(line) = "'" THEN << "'", BS, "'", "'" >> ELSE << Head(line) >>)
         \o ShellQuoted(Tail(line))

RECURSIVE QuotedArguments(_, _)
QuotedArguments(s, k) ==
  IF k > Cardinality(TextLines(s)) THEN << >>
  ELSE << " ", "-", "e", " ", "'" >> \o ShellQuoted(TextLine(s, k)) \o << "'" >>
         \o QuotedArguments(s, k + 1)

\* C17: every line is handed over between single quotes with each single quote of
\* its own written '\'', so the shell reads every argument back as exactly the
\* trimmed line and interprets no character of the command, whatever quotes, $
\* or other shell characters the line holds.
C17_ArgumentsReadBackVerbatim ==
  CommandBuilt =>
    /\ command = OSASCRIPT \o QuotedArguments(script, 1)
    /\ ShellWords(command).ok
    /\ \A k \in 1..Cardinality(TextLines(script)) :
         ShellWords(<< "'" >> \o ShellQuoted(TextLine(script, k)) \o << "'" >>)
           = [words |-> << TextLine(script, k) >>, ok |-> TRUE]

\* C17 witness: the command of the line a'$" , with a single quote next to a $
\* and a double quote, was built.
C17_Witness ==
  /\ runPc = "built"
  /\ script = << "a", "'", "$", DQ >>
  /\ Occurs(<< "'", BS, "'", "'", "$" >>, command)

FAILED_TEXT ==
  << "F", "a", "i", "l", "e", "d", " ", "t", "o", " ", "e", "x", "e", "c",
     "u", "t", "e", " ", "A", "p", "p", "l", "e", "S", "c", "r", "i", "p",
     "t" >>
EMPTY_TEXT ==
  << "E", "m", "p", "t", "y", " ", "A", "p", "p", "l", "e", "S", "c", "r",
     "i", "p", "t", " ", "p", "r", "o", "v", "i", "d", "e", "d" >>

\* out without the white space around it.
Stripped(out) ==
  LET text == { i \in 1..Len(out) : ~IsBlank(out[i]) }
  IN IF text = {} THEN << >>
     ELSE SubSeq(out, Min(text), CHOOSE x \in text : \A y \in text : y <= x)

\* C18: runAppleScript always answers with a result: after a failed execution
\* success is false, output is empty and error starts with 'Failed to execute
\* AppleScript' and carries the stderr of the process or, without one, the
\* message; after a successful one success is true, output is the trimmed output
\* and there is no error.  A result has an error exactly when it is no success.
C18_ResultNeverThrown ==
  runPc = "returned" =>
    /\ result.success \in BOOLEAN
    /\ result.success <=> (result.error = None)
    /\ ~result.success => result.output = << >>
    /\ (execCalls > 0 /\ execOutcome.threw) =>
         /\ ~result.success
         /\ result.output = << >>
         /\ result.error # None
         /\ StartsWith(result.error[1], FAILED_TEXT)
         /\ IF execOutcome.stderr # None /\ execOutcome.stderr[1] # << >>
            THEN EndsWith(result.error[1], execOutcome.stderr[1])
            ELSE EndsWith(result.error[1], execOutcome.message)
         /\ Len(result.error[1]) > Len(FAILED_TEXT) + 2
    /\ (execCalls > 0 /\ ~execOutcome.threw) =>
         /\ result.success
         /\ result.output = Stripped(execOutcome.output)
         /\ result.error = None

\* C18 witness: execSync threw an error with the stderr 'Error: Invalid syntax' and
\* the message 'AppleScript error', and a failure result was returned.
C18_Witness ==
  /\ runPc = "returned"
  /\ execOutcome = Threw(Some(INVALID_SYNTAX), APPLESCRIPT_ERROR)
  /\ ~result.success
  /\ result.error # None

\* C19: a script without a line that holds text is answered with success false,
\* empty output and the error 'Empty AppleScript provided', and execSync is not
\* invoked for it: no command is built and none is executed.
C19_EmptyScriptRejected ==
  /\ (runPc \in { "built", "returned" } /\ TextLines(script) = {}) =>
       /\ runPc = "returned"
       /\ result = [success |-> FALSE, output |-> << >>, error |-> << EMPTY_TEXT >>]
       /\ execCalls = 0
       /\ command = << >>
  /\ execCalls > 0 => TextLines(script) # {}

\* C19 witness: a script of two blank lines was answered without an execution.
C19_Witness ==
  /\ runPc = "returned"
  /\ script = << " ", NL, " " >>
  /\ execCalls = 0
  /\ ~result.success

----------------------------------------------------------------------------
(* Properties of the list boundaries and the line breaks *)

\* A line break starts at 0-based position i of s: a newline or a <br>.
BreakAt(s, i) == At(s, i, << NL >>) \/ AtCI(s, i, BR)

\* A line break ends just before 0-based position i of s.
BreakBefore(s, i) == At(s, i - 1, << NL >>) \/ AtCI(s, i - Len(BR), BR)

\* An opening tag named name (with or without attributes) starts at i.
OpensTag(s, i, name) ==
  /\ AtCI(s, i, << LT >> \o name)
  /\ i + Len(name) + 1 < Len(s)
  /\ (s[i + Len(name) + 2] = GT \/ IsSpace(s[i + Len(name) + 2]))
  /\ IndexOfChar(s, GT, i) # -1

\* The position just after the tag that starts at i.
AfterTag(s, i) == IndexOfChar(s, GT, i) + 1

LIST_NAMES == { << "o", "l" >>, << "u", "l" >> }
ITEM_NAMES == { << "l", "i" >> }

\* A line break directly after an opening tag of one of the names.
BreakAfterOpening(s, names) ==
  \E i \in 0..(Len(s) - 1), name \in names :
    OpensTag(s, i, name) /\ BreakAt(s, AfterTag(s, i))

\* A line break directly before a closing tag of one of the names.
BreakBeforeClosing(s, names) ==
  \E i \in 0..(Len(s) - 1), name \in names :
    AtCI(s, i, << LT, "/" >> \o name \o << GT >>) /\ BreakBefore(s, i)

\* A closing item tag, a line break, and an opening item tag next to each other.
BreakBetweenItems(s) ==
  \E i \in 0..(Len(s) - 1) :
    /\ AtCI(s, i, LI_CLOSE)
    /\ \/ At(s, i + 5, << NL >>) /\ AtCI(s, i + 6, LI_OPEN)
       \/ AtCI(s, i + 5, BR) /\ AtCI(s, i + 5 + Len(BR), LI_OPEN)

\* C25: for content that holds markup, the payload has no line break, neither a
\* newline nor a <br>, directly after an opening list or item tag, directly
\* before a closing list or item tag, or between two adjacent item tags.
C25_NoBreakAtListBoundaries ==
  (Formatted /\ HasTag(content)) =>
    /\ ~BreakAfterOpening(formatted, LIST_NAMES \cup ITEM_NAMES)
    /\ ~BreakBeforeClosing(formatted, LIST_NAMES \cup ITEM_NAMES)
    /\ ~BreakBetweenItems(formatted)

\* The same for the list tags only, and for balanced lists.
C25_NoBreakAtListTags ==
  (Formatted /\ HasTag(content) /\ ListTagsBalanced(content)) =>
    /\ ~BreakAfterOpening(formatted, LIST_NAMES)
    /\ ~BreakBeforeClosing(formatted, LIST_NAMES)
    /\ ~BreakBetweenItems(formatted)

----------------------------------------------------------------------------
\* The markup on which the newline step of formatNoteContent works.
BeforeNewlineStep ==
  IF hasNestedLists(Markup) THEN convertNestedListsToDivs(Markup) ELSE Markup

\* After the character at 1-based position i the text of s reaches a '>' before
\* any '<'.
ReachesGtFirst(s, i) ==
  \E g \in (i + 1)..Len(s) :
    /\ s[g] = GT
    /\ \A k \in (i + 1)..(g - 1) : s[k] # LT

\* s with every newline that is not inside a tag as <br>, position by position.
RECURSIVE BreaksOutsideTagsFrom(_, _)
BreaksOutsideTagsFrom(s, i) ==
  IF i > Len(s) THEN << >>
  ELSE (IF s[i] = NL /\ ~ReachesGtFirst(s, i) THEN << "<", "b", "r", ">" >>
        ELSE << s[i] >>) \o BreaksOutsideTagsFrom(s, i + 1)

NewlinesInsideTags(s) == { i \in 1..Len(s) : s[i] = NL /\ ReachesGtFirst(s, i) }
NewlinesOutsideTags(s) == { i \in 1..Len(s) : s[i] = NL /\ ~ReachesGtFirst(s, i) }

\* C26: for content that holds markup the newline step turns into <br> exactly
\* the newlines after which no '>' comes before a '<' and keeps exactly the
\* others; every newline left in the payload is one after which a '>' comes
\* before any '<', and there are as many of them as the markup had inside tags.
C26_NewlinesOutsideTagsConverted ==
  (Formatted /\ HasTag(content)) =>
    /\ formatted = HTML_OPEN \o BreaksOutsideTagsFrom(BeforeNewlineStep, 1)
                     \o HTML_CLOSE
    /\ \A i \in 1..Len(formatted) : formatted[i] = NL => ReachesGtFirst(formatted, i)
    /\ Count(<< NL >>, formatted) = Cardinality(NewlinesInsideTags(BeforeNewlineStep))

\* Markup with a newline outside a tag and one inside was formatted: the payload
\* keeps one newline and has a <br> for the other.
C26_Witness ==
  /\ Formatted
  /\ HasTag(content)
  /\ NewlinesInsideTags(BeforeNewlineStep) # {}
  /\ NewlinesOutsideTags(BeforeNewlineStep) # {}
  /\ Count(<< NL >>, formatted) = 1
  /\ Count(BR, formatted) >= 1

----------------------------------------------------------------------------

(* Properties of the manager *)

\* The last operation was called and its script was reported as failed.
OperationFailed(op) == mgrPc = "ready" /\ call.op = op /\ ~result.success

\* C20: when the script of a manager operation is reported as failed, the
\* operation still returns, and it returns nothing partial: createNote returns
\* null, searchNotes an empty array, getNoteContent the empty string.  Every
\* call that was made has returned a value of the kind its operation returns.
C20_FailureReturnsEmpty ==
  /\ call.op # "none" => returned.kind \in { "null", "note", "notes", "string" }
  /\ OperationFailed("createNote") => returned.kind = "null"
  /\ OperationFailed("searchNotes") => returned.kind = "notes" /\ Len(returned.value) = 0
  /\ OperationFailed("getNoteContent") => returned.kind = "string" /\ Len(returned.value) = 0

\* createNote of a non-empty title and content whose script execution threw.
C20_Witness ==
  /\ OperationFailed("createNote")
  /\ execOutcome.threw
  /\ execCalls = 1
  /\ call.title # << >>
  /\ call.content # << >>
  /\ returned.kind = "null"

C20_WitnessSearch == OperationFailed("searchNotes") /\ execOutcome.threw /\ returned.kind = "notes"
C20_WitnessGet == OperationFailed("getNoteContent") /\ execOutcome.threw /\ returned.kind = "string"

\* The last operation was called and its script was reported as run.
OperationSucceeded(op) == mgrPc = "ready" /\ call.op = op /\ result.success

NAME_FIELD == << "n", "a", "m", "e", ":", DQ >>
BODY_FIELD == << "b", "o", "d", "y", ":", DQ >>

\* C21: when its script was run with success, createNote returns a Note whose
\* title, content and tags are the caller's values, unescaped and unformatted,
\* and the script that was run holds name:"<escaped title>" and
\* body:"<formatted content>".
C21_NoteKeepsOriginalValues ==
  OperationSucceeded("createNote") =>
    /\ returned.kind = "note"
    /\ returned.value.title = call.title
    /\ returned.value.content = call.content
    /\ returned.value.tags = call.tags
    /\ Occurs(NAME_FIELD \o escapeAppleScriptString(call.title) \o << DQ, "," >>, script)
    /\ Occurs(BODY_FIELD \o formatNoteContent(call.content) \o << DQ, "}" >>, script)

\* A created note whose title the escaper rewrites and whose content the
\* formatter rewrites: the script differs from the Note in both.
C21_Witness ==
  /\ OperationSucceeded("createNote")
  /\ returned.kind = "note"
  /\ returned.value.title = << "a", DQ, BS >>
  /\ escapeAppleScriptString(call.title) # call.title
  /\ returned.value.content = << "a", NL, "b" >>
  /\ formatNoteContent(call.content) # call.content
  /\ returned.value.tags # << >>
  /\ ~Occurs(NAME_FIELD \o call.title \o << DQ, "," >>, script)

\* C22: when its script was run with success, searchNotes returns one Note per
\* name the Notes application reported, in the same order, each with that name
\* as title and with empty content; no name gives an empty array.
C22_OneNotePerName ==
  OperationSucceeded("searchNotes") =>
    /\ returned.kind = "notes"
    /\ Len(returned.value) = Len(matched)
    /\ \A i \in 1..Len(returned.value) :
         /\ i <= Len(matched) => returned.value[i].title = matched[i]
         /\ returned.value[i].content = << >>

\* The same for names that hold no ', ': the names the separator cannot cut.
NoSeparatorInside(names) == \A i \in 1..Len(names) : ~Occurs(COMMA_SPACE, names[i])

C22_OneNotePerPlainName ==
  (OperationSucceeded("searchNotes") /\ NoSeparatorInside(matched)) =>
    /\ returned.kind = "notes"
    /\ Len(returned.value) = Len(matched)
    /\ \A i \in 1..Len(returned.value) :
         /\ i <= Len(matched) => returned.value[i].title = matched[i]
         /\ returned.value[i].content = << >>

----------------------------------------------------------------------------
(* Properties of the tools *)

\* The tool invoked last ran a script that was reported as failed.
ToolFailed(name) == mgrPc = "ready" /\ tool = name /\ ~result.success

FAILED_WORD == << "F", "a", "i", "l", "e", "d" >>
NO_MATCH_TEXT ==
  << "N", "o", " ", "n", "o", "t", "e", "s", " ", "f", "o", "u", "n", "d",
     " ", "m", "a", "t", "c", "h", "i", "n", "g", " ", "y", "o", "u", "r",
     " ", "q", "u", "e", "r", "y" >>
NOT_FOUND_TEXT ==
  << "N", "o", "t", "e", " ", "n", "o", "t", " ", "f", "o", "u", "n", "d" >>

\* C23: every tool invocation ends in a response with exactly one item, of type
\* text.  After a failed script create-note answers isError = true and a text
\* that contains 'Failed', search-notes answers 'No notes found matching your
\* query' and get-note-content 'Note not found'.  create-note sets isError
\* exactly when createNote returned no note, and then to true.
C23_FailureBecomesResponse ==
  /\ tool # "none" =>
       /\ Len(response.content) = 1
       /\ response.content[1].type = "text"
  /\ ToolFailed("create-note") =>
       /\ response.isError = Some(TRUE)
       /\ Occurs(FAILED_WORD, response.content[1].text)
  /\ ToolFailed("search-notes") => response.content[1].text = NO_MATCH_TEXT
  /\ ToolFailed("get-note-content") => response.content[1].text = NOT_FOUND_TEXT
  /\ tool = "create-note" =>
       /\ response.isError # None <=> returned.kind = "null"
       /\ response.isError \in { None, Some(TRUE) }

\* create-note after execSync threw: one text item and the error flag.
C23_Witness ==
  /\ ToolFailed("create-note")
  /\ execOutcome.threw
  /\ returned.kind = "null"
  /\ Len(response.content) = 1
  /\ response.isError = Some(TRUE)

C23_WitnessSearch == ToolFailed("search-notes") /\ execOutcome.threw /\ Len(response.content) = 1
C23_WitnessGet == ToolFailed("get-note-content") /\ execOutcome.threw /\ Len(response.content) = 1
C23_WitnessCreated == tool = "create-note" /\ result.success /\ response.isError = None

----------------------------------------------------------------------------
(* Properties of the account choice *)

PROBE_TEXT ==
  << "t", "e", "l", "l", " ", "a", "p", "p", "l", "i", "c", "a", "t", "i",
     "o", "n", " ", "\"", "N", "o", "t", "e", "s", "\"", "\n", " ", " ",
     "t", "e", "l", "l", " ", "a", "c", "c", "o", "u", "n", "t", " ", "\"",
     "i", "C", "l", "o", "u", "d", "\"", "\n", " ", " ", " ", " ", "r",
     "e", "t", "u", "r", "n", " ", "\"", "O", "K", "\"", "\n", " ", " ",
     "e", "n", "d", " ", "t", "e", "l", "l", "\n", "e", "n", "d", " ", "t",
     "e", "l", "l" >>
ICLOUD_WRAP_HEAD ==
  << "t", "e", "l", "l", " ", "a", "p", "p", "l", "i", "c", "a", "t", "i",
     "o", "n", " ", "\"", "N", "o", "t", "e", "s", "\"", "\n", " ", " ",
     "t", "e", "l", "l", " ", "a", "c", "c", "o", "u", "n", "t", " ", "\"",
     "i", "C", "l", "o", "u", "d", "\"", "\n", " ", " ", " ", " " >>
ICLOUD_WRAP_TAIL ==
  << "\n", " ", " ", "e", "n", "d", " ", "t", "e", "l", "l", "\n", "e",
     "n", "d", " ", "t", "e", "l", "l" >>
DEFAULT_WRAP_HEAD ==
  << "t", "e", "l", "l", " ", "a", "p", "p", "l", "i", "c", "a", "t", "i",
     "o", "n", " ", "\"", "N", "o", "t", "e", "s", "\"", "\n", " ", " " >>
DEFAULT_WRAP_TAIL ==
  << "\n", "e", "n", "d", " ", "t", "e", "l", "l" >>
TELL_ACCOUNT ==
  << "t", "e", "l", "l", " ", "a", "c", "c", "o", "u", "n", "t" >>

\* s is a command wrapped for the iCloud account.
WrappedForICloud(s) == StartsWith(s, ICLOUD_WRAP_HEAD) /\ EndsWith(s, ICLOUD_WRAP_TAIL)

\* s is a command addressed to the default account: no account wrapper.
WrappedForDefault(s) ==
  /\ StartsWith(s, DEFAULT_WRAP_HEAD)
  /\ EndsWith(s, DEFAULT_WRAP_TAIL)
  /\ ~StartsWith(s, DEFAULT_WRAP_HEAD \o TELL_ACCOUNT)
  /\ ~EndsWith(s, ICLOUD_WRAP_TAIL)

\* C24: the construction of the manager runs the probe script once and sets the
\* account to iCloud when the probe succeeded and to none otherwise; every
\* later step, whichever operation it is and whether its script succeeds or
\* fails, leaves the account and the probe count as they are, runs a script
\* other than the probe, and that script is wrapped for iCloud when the account
\* is iCloud and has no account wrapper otherwise.
C24_AccountDecidedOnce ==
  [][ /\ mgrPc = "new" =>
           /\ mgrPc' = "ready"
           /\ probes' = 1
           /\ script' = PROBE_TEXT
           /\ accountName' = IF result'.success THEN Some(ICLOUD_ACCOUNT) ELSE None
      /\ mgrPc = "ready" =>
           /\ mgrPc' = "ready"
           /\ probes' = probes
           /\ accountName' = accountName
           /\ script' # PROBE_TEXT
           /\ accountName = Some(ICLOUD_ACCOUNT) => WrappedForICloud(script')
           /\ accountName = None => WrappedForDefault(script')
           /\ accountName \in { None, Some(ICLOUD_ACCOUNT) } ]_vars

\* A failed createNote of a manager that chose iCloud: the account is still
\* iCloud, the probe ran once and the failed script was wrapped for iCloud.
C24_Witness ==
  /\ mgrPc = "ready"
  /\ call.op = "createNote"
  /\ ~result.success
  /\ probes = 1
  /\ accountName = Some(ICLOUD_ACCOUNT)
  /\ WrappedForICloud(script)

C24_WitnessDefault ==
  /\ mgrPc = "ready"
  /\ call.op = "searchNotes"
  /\ result.success
  /\ probes = 1
  /\ accountName = None
  /\ WrappedForDefault(script)

----------------------------------------------------------------------------
(* Properties of the note command as script lines *)

\* Number of lines the account wrapper puts around a command.
ICLOUD_WRAP_LINES == 4
DEFAULT_WRAP_LINES == 2

WrapLines == IF accountName # None THEN ICLOUD_WRAP_LINES ELSE DEFAULT_WRAP_LINES

\* One of the lines handed to osascript is a whole make new note command.
WholeCommandLine ==
  \E i \in 1..Len(lines) :
    /\ StartsWith(lines[i], MAKE_NOTE_HEAD)
    /\ EndsWith(lines[i], MAKE_NOTE_TAIL)

\* C30: the make new note command of createNote holds no newline, so the script
\* has only the newlines of the account wrapper and runAppleScript hands the
\* whole command, from 'make new note' to the closing brace, to osascript as
\* one argument.
C30_CommandIsOneArgument ==
  call.op = "createNote" =>
    /\ Count(<< NL >>, script) = WrapLines
    /\ Len(lines) = WrapLines + 1
    /\ WholeCommandLine

\* The same for a title without a newline and a content that format leaves
\* without a newline.
C30_CommandWithoutNewlineIsOneArgument ==
  (/\ call.op = "createNote"
   /\ ~Occurs(<< NL >>, call.title)
   /\ ~Occurs(<< NL >>, formatNoteContent(call.content))) =>
    /\ Count(<< NL >>, script) = WrapLines
    /\ Len(lines) = WrapLines + 1
    /\ WholeCommandLine

\* A newline that format left inside a tag has split the body literal.
C30_BodySplit ==
  /\ call.op = "createNote"
  /\ ~Occurs(<< NL >>, call.title)
  /\ Len(lines) = WrapLines + 2
  /\ ~WholeCommandLine

\* A newline of the title has split the name literal.
C30_NameSplit ==
  /\ call.op = "createNote"
  /\ Occurs(<< NL >>, call.title)
  /\ ~Occurs(<< NL >>, formatNoteContent(call.content))
  /\ Len(lines) = WrapLines + 2
  /\ ~WholeCommandLine

=============================================================================
